---- MODULE Spec2Model ----
(***************************************************************************)
(* Checkpoint / resume behaviour of the moviecreator pipeline:             *)
(*   Story Bible extraction  (extraction/story_bible_extractor.py)         *)
(*   screenplay conversion   (screenplay/converter.py)                     *)
(*   scene breakdown         (screenplay/scene_breakdown.py)               *)
(* driven by the CLI commands of main.py.  One run is in flight at a time  *)
(* (the pipeline is single-threaded); the operator drives the pipeline     *)
(* forward and re-invokes a stage until it succeeds.  The text-generation  *)
(* backend is a deterministic stub: its response is a function of the      *)
(* prompt.  A run can end by returning, by an ExtractionError of the model *)
(* caller, by an uncaught checkpoint I/O error, or by process termination. *)
(*                                                                         *)
(* Two further state machines look inside one model call:                  *)
(*   SpecCall   the retry loop of _call_llm, attempt by attempt, against a *)
(*              backend that is free to answer or to raise;                *)
(*   SpecParse  the functions that turn model outputs into objects, call   *)
(*              by call, against a model that is free in what it outputs.  *)
(* and two more apply the text-processing functions to bounded inputs:     *)
(*   SpecScene  _build_scene_from_lines followed by process_scene;         *)
(*   SpecCoerce the JSON coercion cascade of the three _call_llm.          *)
(***************************************************************************)
EXTENDS Integers, Sequences, FiniteSets, TLC

\* ---------------------------------------------------------------- bounds
MaxChunks == 21
MaxFaults == 2
MaxArrayLen == 2
MaxActChunks == 4
MaxLines == 2
MaxAbsent == 1
MaxTextLen == 4
MaxStringLen == 2

MaxFountainLines == 3

MaxSampleLen == 20

SAMPLE_N == 10

MaxCoroutines == 2

MaxClock == 7

MaxDocLen == 6

MaxChapters == 2

MaxChunkSize == 3

MaxWorkers == 2

MaxJobs == 2

MaxHandouts == 2

\* ------------------------------------------------------ program constants
BATCH_SIZE == 10
CHECKPOINT_EVERY == 10
MERGE_THRESHOLD == 5
TOKENS_PER_CALL == 1

\* The six sub-stages of extract, in the order the code runs them.
SubStages == <<"characters", "locations", "tone", "plot", "world_rules", "timeline">>

SubStageSet == {SubStages[n] : n \in 1..Len(SubStages)}

StageIndex(k) == CHOOSE n \in 1..Len(SubStages) : SubStages[n] = k

\* Program counter after sub-stage k: the next sub-stage, or the final part
\* of extract (visual style notes, StoryBible, clear).
NextStage(k) ==
    IF StageIndex(k) = Len(SubStages) THEN "finish" ELSE SubStages[StageIndex(k) + 1]

\* 'stage' label each sub-stage writes into the checkpoint.
StageLabel(k) ==
    CASE k = "characters"  -> "characters_complete"
      [] k = "locations"   -> "locations_complete"
      [] k = "tone"        -> "tone_complete"
      [] k = "plot"        -> "plot_complete"
      [] k = "world_rules" -> "world_rules_complete"
      [] k = "timeline"    -> "timeline_complete"

\* ------------------------------------------------------------ dictionaries
\* A Python dict / None.  vals maps the keys present (other than 'stage' and
\* 'tokens_used') to their values; tokens is -1 without a 'tokens_used' entry.
EmptyVals == [k \in {} |-> 0]

\* The 'stage' entry: a label, with the chunk index for the converter's
\* f'scenes_through_chunk_{i}'.
Stage(name, idx) == [name |-> name, idx |-> idx]

NoStage == Stage("", -1)

None == [isNone |-> TRUE, stage |-> NoStage, tokens |-> -1, vals |-> EmptyVals]

Dict(stage, tokens, vals) == [isNone |-> FALSE, stage |-> stage, tokens |-> tokens, vals |-> vals]

EmptyDict == Dict(NoStage, -1, EmptyVals)

\* Python truthiness of "checkpoint_data": None and {} are falsy.
Truthy(d) == ~d.isNone /\ (d.stage # NoStage \/ DOMAIN d.vals # {})

\* "checkpoint_data and key in checkpoint_data"
HasKey(d, k) == Truthy(d) /\ k \in DOMAIN d.vals

\* "x or {}"
OrEmpty(d) == IF Truthy(d) THEN d ELSE EmptyDict

\* dict.update({'stage': stage, key: value, 'tokens_used': tokens})
Update(d, stage, k, v, tokens) ==
    Dict(stage, tokens, [q \in (DOMAIN d.vals) \cup {k} |-> IF q = k THEN v ELSE d.vals[q]])

\* ------------------------------------------------------- checkpoint files
\* kind "none": the file does not exist; "ok": a complete JSON document;
\* "trunc": the file was opened for writing (which empties it) and the dump
\* did not complete, so it holds a strict prefix of the document.
NoFile == [kind |-> "none", stage |-> NoStage, tokens |-> -1, vals |-> EmptyVals]

FileOf(d) == [kind |-> "ok", stage |-> d.stage, tokens |-> d.tokens, vals |-> d.vals]

\* Position of a key in a document: sub-stage order for the extraction
\* checkpoint, the order of the converter's dict literal for the other.
KeyOrder == <<"characters", "locations", "tone", "plot", "world_rules", "timeline",
              "scenes", "act_structure", "last_processed_chunk_idx">>

KeyIndex(k) == CHOOSE n \in 1..Len(KeyOrder) : KeyOrder[n] = k

\* The first m keys of a document.
KeyPrefix(keys, m) == {k \in keys : Cardinality({q \in keys : KeyIndex(q) < KeyIndex(k)}) < m}

Truncations(d) ==
    {[kind |-> "trunc", stage |-> NoStage, tokens |-> -1,
      vals |-> [k \in KeyPrefix(DOMAIN d.vals, m) |-> d.vals[k]]] :
        m \in 0..(Cardinality(DOMAIN d.vals) - 1)}

\* Load without the parse-error handling: whatever was written is returned.
LoadLenient(f) ==
    IF f.kind = "none" THEN None ELSE Dict(f.stage, f.tokens, f.vals)

\* ExtractionCheckpoint.load: None when the file is missing or json.load (or
\* data.get) raises, else the parsed dict.
Load(f) ==
    IF f.kind = "ok" THEN Dict(f.stage, f.tokens, f.vals) ELSE None

\* ExtractionCheckpoint.save, the outcomes in which an exception is raised
\* (and swallowed): open() raises and the file is untouched, or the dump
\* raises after open() emptied the file.
SaveFaults(f, d) == {f} \cup Truncations(d)

\* ExtractionCheckpoint.exists
Exists(f) == f.kind # "none"

\* clear() that leaves the file in place.
ClearNothing(f) == f

\* ExtractionCheckpoint.clear when unlink succeeds (or the file is absent).
Clear(f) == NoFile

\* --------------------------------------------------- model objects / JSON
\* A pydantic object carries its class; model_dump() yields the plain dict
\* and Cls(**d) rebuilds the object.
Obj(cls, d) == [cls |-> cls, d |-> d]

ModelDump(o) == o.d

DumpList(os) == [n \in 1..Len(os) |-> ModelDump(os[n])]

BuildList(cls, ds) == [n \in 1..Len(ds) |-> Obj(cls, ds[n])]

\* ------------------------------------------------ deterministic stub model
CharNames == <<"Alice", "Bob", "Carol">>

LocNames == <<"Hall", "Garden">>

\* JSON array returned for character batch b (b = 0, 1, ...): one profile.
CharResp(b) == <<[name |-> CharNames[(b % Len(CharNames)) + 1]]>>

\* JSON array returned for location batch b: one location.
LocResp(b) == <<[name |-> LocNames[(b % Len(LocNames)) + 1]]>>

ToneResp == [mood |-> "tense"]

PlotResp == [logline |-> "a heist"]

WorldRulesResp == <<"no magic">>

TimelineResp == [era |-> "Victorian"]

\* range(0, len(chunks), batch_size): number of batches.
NumBatches(n) == (n + BATCH_SIZE - 1) \div BATCH_SIZE

RECURSIVE Dedup(_, _)
\* keep the first occurrence of each name
Dedup(ds, seen) ==
    IF ds = <<>> THEN <<>>
    ELSE IF Head(ds).name \in seen THEN Dedup(Tail(ds), seen)
         ELSE <<Head(ds)>> \o Dedup(Tail(ds), seen \cup {Head(ds).name})

\* The stub's answer to the merge-duplicates prompt.
MergeResp(ds) == Dedup(ds, {})

\* _merge_duplicate_characters
MergeDuplicateCharacters(profiles) ==
    IF Len(profiles) <= MERGE_THRESHOLD THEN profiles
    ELSE BuildList("CharacterProfile", MergeResp(DumpList(profiles)))

RECURSIVE CharBatches(_, _)
\* all_profiles after batches b .. nb-1
CharBatches(b, nb) ==
    IF b >= nb THEN <<>>
    ELSE BuildList("CharacterProfile", CharResp(b)) \o CharBatches(b + 1, nb)

\* _extract_characters
ExtractCharacters(n) ==
    LET all_profiles == CharBatches(0, NumBatches(n))
    IN  IF Len(all_profiles) > 0 THEN MergeDuplicateCharacters(all_profiles) ELSE all_profiles

RECURSIVE LocBatches(_, _, _)
\* all_locations appended by batches b .. nb-1, given location_names_seen
LocBatches(b, nb, seen) ==
    IF b >= nb THEN <<>>
    ELSE LET new == Dedup(LocResp(b), seen)
         IN  BuildList("Location", new) \o
             LocBatches(b + 1, nb, seen \cup {new[q].name : q \in 1..Len(new)})

\* _extract_locations
ExtractLocations(n) == LocBatches(0, NumBatches(n), {})

\* Model calls a sub-stage makes when it is computed.
CallsOf(k, n) ==
    CASE k = "characters" ->
           NumBatches(n) + (IF Len(CharBatches(0, NumBatches(n))) > MERGE_THRESHOLD THEN 1 ELSE 0)
      [] k = "locations" -> NumBatches(n)
      [] OTHER -> 1

\* The value a sub-stage computes (the "else" branch of each block).
Compute(k, n) ==
    CASE k = "characters"  -> ExtractCharacters(n)
      [] k = "locations"   -> ExtractLocations(n)
      [] k = "tone"        -> Obj("NarrativeTone", ToneResp)
      [] k = "plot"        -> Obj("PlotSummary", PlotResp)
      [] k = "world_rules" -> WorldRulesResp
      [] k = "timeline"    -> Obj("TimelinePeriod", TimelineResp)

\* What each block stores under its key.
DumpValue(k, v) ==
    CASE k \in {"characters", "locations"} -> DumpList(v)
      [] k = "world_rules" -> v
      [] OTHER -> ModelDump(v)

\* The checkpoint key a block hydrates from.
HydrateKey(k) == k

\* Hydration whose world-rules block forgets to read the checkpoint.
HydrateDropsRules(k, cd) ==
    LET dv == cd.vals[HydrateKey(k)]
    IN  CASE k = "characters"  -> BuildList("CharacterProfile", dv)
          [] k = "locations"   -> BuildList("Location", dv)
          [] k = "tone"        -> Obj("NarrativeTone", dv)
          [] k = "plot"        -> Obj("PlotSummary", dv)
          [] k = "world_rules" -> <<>>
          [] k = "timeline"    -> Obj("TimelinePeriod", dv)

\* The "if" branch of each block: rebuild the value from the checkpoint.
Hydrate(k, cd) ==
    LET dv == cd.vals[HydrateKey(k)]
    IN  CASE k = "characters"  -> BuildList("CharacterProfile", dv)
          [] k = "locations"   -> BuildList("Location", dv)
          [] k = "tone"        -> Obj("NarrativeTone", dv)
          [] k = "plot"        -> Obj("PlotSummary", dv)
          [] k = "world_rules" -> dv
          [] k = "timeline"    -> Obj("TimelinePeriod", dv)

\* locations[:5]
FirstN(s, n) == SubSeq(s, 1, IF Len(s) < n THEN Len(s) ELSE n)

\* _generate_visual_style_notes
GenerateVisualStyleNotes(tone, locations) ==
    [mood |-> tone.d.mood,
     primary |-> [q \in 1..Len(FirstN(locations, 5)) |-> locations[q].d.name]]

\* StoryBible(...) built at the end of extract from the local variables.
StoryBible(r) ==
    [characters |-> r["characters"], locations |-> r["locations"],
     timeline |-> r["timeline"], tone |-> r["tone"], plot |-> r["plot"],
     world_rules |-> r["world_rules"],
     visual_style_notes |-> GenerateVisualStyleNotes(r["tone"], r["locations"])]

NoBible == <<>>

\* The locals of an extract that ran every block's "else" branch.
FreshResults(n) == [k \in SubStageSet |-> Compute(k, n)]

\* ------------------------------------------------- screenplay conversion
\* The stub's answer to the act-structure prompt for n chunks: quarters.
ActResp(n) ==
    [act_one_chunk_range   |-> <<0, n \div 4>>,
     act_two_a_chunk_range |-> <<(n \div 4) + 1, n \div 2>>,
     act_two_b_chunk_range |-> <<(n \div 2) + 1, (3 * n) \div 4>>,
     act_three_chunk_range |-> <<((3 * n) \div 4) + 1, n - 1>>]

\* _determine_act_structure
DetermineActStructure(n) == Obj("ActStructure", ActResp(n))

\* _get_act_position
GetActPosition(chunk_idx, act) ==
    IF act.d.act_one_chunk_range[1] <= chunk_idx /\ chunk_idx <= act.d.act_one_chunk_range[2]
    THEN "Act 1"
    ELSE IF act.d.act_two_a_chunk_range[1] <= chunk_idx
            /\ chunk_idx <= act.d.act_two_a_chunk_range[2]
    THEN "Act 2A"
    ELSE IF act.d.act_two_b_chunk_range[1] <= chunk_idx
            /\ chunk_idx <= act.d.act_two_b_chunk_range[2]
    THEN "Act 2B"
    ELSE "Act 3"

\* Number of scenes parsed from the stub's answer for chunk-step i: one, two
\* or none.
ScenesPerChunk(i) == (i + 1) % 3

\* scenes[0] in place of scenes[-1]
PreviousSceneFirst(scenes) == IF scenes = <<>> THEN 0 ELSE scenes[1].d.scene_number

\* scenes[-1].model_dump() if scenes else None, reduced to what the prompt
\* shows of it: 0 stands for None.
PreviousScene(scenes) == IF scenes = <<>> THEN 0 ELSE scenes[Len(scenes)].d.scene_number

\* _convert_chunk_batch_to_scenes: the scenes parsed from the stub's answer to
\* the prompt of chunk-step i.  The answer is a function of the prompt, i.e.
\* of the chunk window, the previous scene and the act position; the parser
\* numbers the scenes from starting_scene_number.  (scene_id, a fresh uuid4,
\* is left out.)
\* current_scene_number is never incremented
ConvertChunkBatchSameNumber(i, previous_scene, act_position, starting_scene_number) ==
    [j \in 1..ScenesPerChunk(i) |->
        Obj("ScreenplayScene",
            [scene_number |-> starting_scene_number, src |-> i, ord |-> j,
             act |-> act_position, after |-> previous_scene])]

ConvertChunkBatchToScenes(i, previous_scene, act_position, starting_scene_number) ==
    [j \in 1..ScenesPerChunk(i) |->
        Obj("ScreenplayScene",
            [scene_number |-> starting_scene_number + j - 1, src |-> i, ord |-> j,
             act |-> act_position, after |-> previous_scene])]

\* enumerate(scenes) without start=1
RenumberScenesFromZero(scenes) ==
    [j \in 1..Len(scenes) |->
        Obj("ScreenplayScene", [scenes[j].d EXCEPT !.scene_number = j - 1])]

\* _renumber_scenes
RenumberScenes(scenes) ==
    [j \in 1..Len(scenes) |-> Obj("ScreenplayScene", [scenes[j].d EXCEPT !.scene_number = j])]

\* Screenplay(...) built at the end of convert.
Screenplay(scenes, act) ==
    [scenes |-> scenes, act_structure |-> act, scene_count |-> Len(scenes)]

NoScreenplay == <<>>

NoAct == Obj("ActStructure", <<>>)

\* Resuming at the last processed chunk instead of the one after it.
StartChunkIdxNoIncrement(cd) ==
    IF "last_processed_chunk_idx" \in DOMAIN cd.vals
    THEN cd.vals["last_processed_chunk_idx"] ELSE 0

\* checkpoint_data.get('last_processed_chunk_idx', 0) + 1
StartChunkIdx(cd) ==
    (IF "last_processed_chunk_idx" \in DOMAIN cd.vals
     THEN cd.vals["last_processed_chunk_idx"] ELSE 0) + 1

RECURSIVE UninterruptedScenes(_, _, _)
\* The scene list the chunk loop of convert builds from chunk k on when it
\* runs to the end without a checkpoint, given the list so far.
UninterruptedScenes(k, n, scs) ==
    IF k >= n THEN scs
    ELSE UninterruptedScenes(k + 1, n,
            scs \o ConvertChunkBatchToScenes(k, PreviousScene(scs),
                       GetActPosition(k, DetermineActStructure(n)), Len(scs) + 1))

\* The dict saved after the act structure was determined.
ActDict(act) ==
    Dict(Stage("act_structure_complete", -1), -1,
         [q \in {"act_structure"} |-> ModelDump(act)])

\* The dict saved after chunk-step i.
ScenesDict(i, scenes, act, tokens) ==
    Dict(Stage("scenes_through_chunk", i), tokens,
         [q \in {"scenes", "act_structure", "last_processed_chunk_idx"} |->
            CASE q = "scenes" -> DumpList(scenes)
              [] q = "act_structure" -> ModelDump(act)
              [] q = "last_processed_chunk_idx" -> i])

\* ================================================================== state
VARIABLES
    nChunks,            \* number of chunks of the novel (db.get_chunks)
    run,                \* "idle" | "extract" | "convert" | "breakdown"
    pc,                 \* position inside the running stage
    checkpoint,         \* the run has a checkpoint object ("if checkpoint:")
    checkpoint_data,    \* the run's checkpoint_data local
    total_tokens_used,  \* self.total_tokens_used of the run's extractor/converter
    xres,               \* extract: the locals characters, locations, tone, ...
    xret,               \* extract: the returned StoryBible
    act_structure,      \* convert: local
    scenes,             \* convert: local
    i,                  \* convert: loop index; process_all_scenes: scene index
    scene_number,       \* convert: local
    cret,               \* convert: the returned Screenplay
    breakdowns,         \* process_all_scenes: local
    xfile,              \* <novel_id>_checkpoint.json
    cfile,              \* <novel_id>_screenplay_checkpoint.json
    storedBible,        \* the story_bibles row of the novel
    screenplay,         \* the exported <title>_screenplay.json
    breakdownFile,      \* the exported <title>_breakdown.json
    startData,          \* history: checkpoint_data as loaded at the start of the run
    startFile,          \* history: the checkpoint file at the start of the run
    calls,              \* history: sub-stages computed by model calls in this run
    writes,             \* history: sub-stages that called save() in this run
    xLastSaved,         \* history: last snapshot save() wrote completely to xfile
    cLastSaved,         \* history: the same for cfile (NoFile after clear)
    bdHigh,             \* history: most scenes an earlier breakdown run completed before it failed
    faults,             \* history: checkpoint I/O errors injected so far
    ended               \* history: where and how the latest run ended, until the next begins

\* One _call_llm invocation, observed attempt by attempt.
VARIABLES
    llmCaller,          \* class whose _call_llm runs: "extractor" | "converter" | "breakdown"
    expect_json,        \* _call_llm: parameter
    attempt,            \* _call_llm: loop variable
    invocations,        \* history: client.messages.create calls made so far
    wait_times,         \* history: the time.sleep(wait_time) arguments, in order
    errors,             \* history: the exception caught at each failed attempt
    llmOutcome,         \* "idle" | "running" | "returned" | "ExtractionError" | "reraised"
    llmResult           \* the text _call_llm returned

callVars == <<llmCaller, expect_json, attempt, invocations, wait_times, errors,
              llmOutcome, llmResult>>

\* One response-handling function of the extractor or converter, observed
\* model call by model call.
VARIABLES
    fn,                 \* the function that runs, "none" when none does
    fpc,                \* "idle" | "batch" | "merge" | "call" | "returned" | "raised"
    chunk_count,        \* len(chunks)
    batch,              \* number of passes of the batch loop completed
    all_profiles,       \* _extract_characters: local
    all_locations,      \* _extract_locations: local
    location_names_seen, \* _extract_locations: local
    fresult,            \* the value the function returned
    lastResp,           \* history: the model output of the latest _call_llm
    sent,               \* history: batch prompts handed to _call_llm
    mergeCalls          \* history: merge prompts handed to _call_llm

parseVars == <<fn, fpc, chunk_count, batch, all_profiles, all_locations,
               location_names_seen, fresult, lastResp, sent, mergeCalls>>

\* One scene on its way from Fountain lines to a SceneBreakdown.
VARIABLES
    spc,                \* "idle" | "built" | "processed"
    story_bible,        \* the characters of the StoryBible handed to both functions
    cur_scene,          \* the value _build_scene_from_lines returned
    breakdown_data,     \* process_scene: local, json.loads(result)
    breakdown,          \* the value process_scene returned
    raised              \* the exception process_scene raised, "" when none

sceneVars == <<spc, story_bible, cur_scene, breakdown_data, breakdown, raised>>

\* One model response on its way through the JSON coercion of the three
\* _call_llm implementations.
VARIABLES
    cpc,                \* "idle" | "coerced"
    response_text,      \* message.content[0].text
    json_value,         \* history: the value the response was serialized from
    coerced             \* what each caller's cascade makes of response_text

coerceVars == <<cpc, response_text, json_value, coerced>>

\* One model response on its way through _parse_fountain_to_scenes.
VARIABLES
    fopc,               \* "idle" | "parsed"
    fountain_text,      \* the response, line by line
    starting_scene_number, \* _parse_fountain_to_scenes: parameter
    parsed_scenes       \* the list _parse_fountain_to_scenes returned

fountainVars == <<fopc, fountain_text, starting_scene_number, parsed_scenes>>

\* One call of _get_sample_chunks.
VARIABLES
    smpc,               \* "idle" | "sampled"
    all_chunks,         \* _get_sample_chunks: parameter chunks, as chunk ids in order
    sample_n,           \* _get_sample_chunks: parameter n
    sample_chunks       \* the list _get_sample_chunks returned

sampleVars == <<smpc, all_chunks, sample_n, sample_chunks>>

\* The RateLimiter of one JobExecutor and the coroutines calling acquire.
VARIABLES
    clock,              \* time.time(), in whole seconds
    limits,             \* RateLimiter.limits[provider]["last_request"]
    apc,                \* per coroutine: "idle" | "sleeping"
    api_provider,       \* acquire: parameter, per sleeping coroutine
    wake_at,            \* per sleeping coroutine: the time asyncio.sleep(wait_time) is over
    admitted            \* history: per provider, when acquire let its latest two requests through

limiterVars == <<clock, limits, apc, api_provider, wake_at, admitted>>

\* One call of NarrativeChunker.chunk.
VARIABLES
    kpc,                \* "idle" | "chunked"
    doc,                \* chunk: parameter, its raw_text and chapter_boundaries
    chunk_size,         \* NarrativeChunker.chunk_size
    all_narrative       \* the list chunk returned (all_chunks there)

chunkerVars == <<kpc, doc, chunk_size, all_narrative>>

\* The generation_jobs table and the workers using one JobQueue.
VARIABLES
    generation_jobs,    \* the rows of the table, in order of insertion
    wpc,                \* per worker: "idle" | "got" | "running"
    job,                \* per worker: the id of the job get_next_job returned, 0 for None
    handouts            \* history: per job id, how often get_next_job returned it

queueVars == <<generation_jobs, wpc, job, handouts>>

compVars == <<fountainVars, sampleVars, limiterVars, chunkerVars, queueVars>>

textVars == <<sceneVars, coerceVars, compVars>>

unitVars == <<callVars, parseVars, textVars>>

locals == <<checkpoint, checkpoint_data, total_tokens_used, xres, xret, act_structure,
            scenes, i, scene_number, cret, breakdowns>>

hist == <<startData, startFile, calls, writes>>

xdisk == <<xfile, xLastSaved>>

cdisk == <<cfile, cLastSaved>>

outputs == <<storedBible, screenplay, breakdownFile>>

pvars == <<nChunks, run, pc, locals, hist, xdisk, cdisk, outputs, bdHigh, faults, ended>>

vars == <<pvars, unitVars>>

NoText == [kind |-> "none"]

\* No _call_llm is being observed.
CallIdle ==
    /\ llmCaller = "none"
    /\ expect_json = FALSE
    /\ attempt = 0
    /\ invocations = 0
    /\ wait_times = <<>>
    /\ errors = <<>>
    /\ llmOutcome = "idle"
    /\ llmResult = NoText

\* A model output: json.loads yields an array ("array"), an object
\* ("object"), no JSON can be recovered from it ("prose"), or the backend
\* keeps failing ("error").
Resp(kind, body) == [kind |-> kind, body |-> body]

NoResp == Resp("none", <<>>)

NoValue == <<>>

\* No response-handling function is being observed.
ParseIdle ==
    /\ fn = "none"
    /\ fpc = "idle"
    /\ chunk_count = 0
    /\ batch = 0
    /\ all_profiles = <<>>
    /\ all_locations = <<>>
    /\ location_names_seen = {}
    /\ fresult = NoValue
    /\ lastResp = NoResp
    /\ sent = 0
    /\ mergeCalls = 0

NoScene == [cls |-> "None", d |-> <<>>]

NoBreakdown == [cls |-> "None", d |-> <<>>]

NoData == [kind |-> "none", d |-> <<>>]

\* No scene is being observed.
SceneIdle ==
    /\ spc = "idle"
    /\ story_bible = <<>>
    /\ cur_scene = NoScene
    /\ breakdown_data = NoData
    /\ breakdown = NoBreakdown
    /\ raised = ""

NoJson == [t |-> "none", s |-> <<>>, kids |-> <<>>, keys |-> <<>>]

Rejected == [ok |-> FALSE, text |-> <<>>]

NotCoerced == [c \in {"extractor", "converter", "breakdown"} |-> Rejected]

\* No response is being observed.
CoerceIdle ==
    /\ cpc = "idle"
    /\ response_text = <<>>
    /\ json_value = NoJson
    /\ coerced = NotCoerced

\* No Fountain response is being observed.
FountainIdle ==
    /\ fopc = "idle"
    /\ fountain_text = <<>>
    /\ starting_scene_number = 1
    /\ parsed_scenes = <<>>

\* No sample is being observed.
SampleIdle ==
    /\ smpc = "idle"
    /\ all_chunks = <<>>
    /\ sample_n = 10
    /\ sample_chunks = <<>>

Providers == {"seedance", "kling"}

Coroutines == 1..MaxCoroutines

\* RateLimiter.__init__, and no coroutine inside acquire. The clock counts
\* from the construction of the limiter; last_request 0 is the epoch, more
\* than a minute before it.
LimiterIdle ==
    /\ clock = 0
    /\ limits = [p \in Providers |-> -60]
    /\ apc = [c \in Coroutines |-> "idle"]
    /\ api_provider = [c \in Coroutines |-> "seedance"]
    /\ wake_at = [c \in Coroutines |-> 0]
    /\ admitted = [p \in Providers |-> <<>>]

NoDoc == [raw_text |-> <<>>, chapter_boundaries |-> <<>>]

\* No document is being chunked.
ChunkerIdle ==
    /\ kpc = "idle"
    /\ doc = NoDoc
    /\ chunk_size = 1
    /\ all_narrative = <<>>

Workers == 1..MaxWorkers

\* An empty table, no worker holding a job.
QueueIdle ==
    /\ generation_jobs = <<>>
    /\ wpc = [w \in Workers |-> "idle"]
    /\ job = [w \in Workers |-> 0]
    /\ handouts = [id \in 1..MaxJobs |-> 0]

CompIdle == FountainIdle /\ SampleIdle /\ LimiterIdle /\ ChunkerIdle /\ QueueIdle

UnitIdle == CallIdle /\ ParseIdle /\ SceneIdle /\ CoerceIdle /\ CompIdle

NoRes == [k \in {} |-> <<>>]

LocalsInit ==
    /\ checkpoint = FALSE
    /\ checkpoint_data = None
    /\ total_tokens_used = 0
    /\ xres = NoRes
    /\ xret = NoBible
    /\ act_structure = NoAct
    /\ scenes = <<>>
    /\ i = 0
    /\ scene_number = 1
    /\ cret = NoScreenplay
    /\ breakdowns = <<>>

\* How a run ended: "returned", "raised" (an exception left the command) or
\* "killed".
Ended(how) == [run |-> run, pc |-> pc, how |-> how]

NotEnded == [run |-> "none", pc |-> "none", how |-> "none"]

\* The process is gone: its locals no longer exist.
ProcessEnds ==
    /\ run' = "idle"
    /\ pc' = "idle"
    /\ checkpoint' = FALSE
    /\ checkpoint_data' = None
    /\ total_tokens_used' = 0
    /\ xres' = NoRes
    /\ xret' = NoBible
    /\ act_structure' = NoAct
    /\ scenes' = <<>>
    /\ i' = 0
    /\ scene_number' = 1
    /\ cret' = NoScreenplay
    /\ breakdowns' = <<>>
    /\ startData' = None
    /\ startFile' = NoFile
    /\ calls' = {}
    /\ writes' = {}

Init ==
    /\ nChunks \in 1..MaxChunks
    /\ run = "idle"
    /\ pc = "idle"
    /\ LocalsInit
    /\ xfile = NoFile
    /\ cfile = NoFile
    /\ storedBible = NoBible
    /\ screenplay = NoScreenplay
    /\ breakdownFile = <<>>
    /\ startData = None
    /\ startFile = NoFile
    /\ calls = {}
    /\ writes = {}
    /\ xLastSaved = NoFile
    /\ cLastSaved = NoFile
    /\ bdHigh = 0
    /\ faults = 0
    /\ ended = NotEnded
    /\ UnitIdle

\* The use_checkpoints / novel_id arguments the callers in main.py pass:
\* always a novel id, never use_checkpoints=False.
UseCheckpoints == {TRUE}

\* A run begins: the stage object is constructed (total_tokens_used = 0), the
\* checkpoint object is created and the checkpoint loaded.
RunBegins(stage, first, use_checkpoints, file) ==
    /\ run = "idle"
    /\ run' = stage
    /\ pc' = first
    /\ checkpoint' = use_checkpoints
    /\ checkpoint_data' = IF use_checkpoints THEN Load(file) ELSE None
    /\ total_tokens_used' = 0
    /\ startData' = checkpoint_data'
    /\ startFile' = file
    /\ calls' = {}
    /\ writes' = {}
    /\ UNCHANGED <<xres, xret, act_structure, scenes, i, scene_number, cret, breakdowns>>

\* ExtractionCheckpoint.save(d): the dump completes, or an exception is
\* raised and swallowed.
XSave(d) ==
    \/ /\ xfile' = FileOf(d)
       /\ xLastSaved' = FileOf(d)
       /\ faults' = faults
    \/ /\ faults < MaxFaults
       /\ xfile' \in SaveFaults(xfile, d)
       /\ faults' = faults + 1
       /\ UNCHANGED xLastSaved

\* ScreenplayCheckpoint.save(d)
CSave(d) ==
    \/ /\ cfile' = FileOf(d)
       /\ cLastSaved' = FileOf(d)
       /\ faults' = faults
    \/ /\ faults < MaxFaults
       /\ cfile' \in SaveFaults(cfile, d)
       /\ faults' = faults + 1
       /\ UNCHANGED cLastSaved

\* ============================================================== extract
\* main.py extract_bible up to the first block of extract.
ExtractStart(use_checkpoints) ==
    /\ storedBible = NoBible
    /\ RunBegins("extract", "characters", use_checkpoints, xfile)
    /\ ended' = NotEnded
    /\ UNCHANGED <<unitVars, nChunks, xdisk, cdisk, outputs, bdHigh, faults>>

\* ExtractionCheckpoint.__init__: mkdir raises; nothing in extract catches it.
ExtractMkdirFails ==
    /\ run = "idle"
    /\ storedBible = NoBible
    /\ faults < MaxFaults
    /\ faults' = faults + 1
    /\ UNCHANGED <<unitVars, ended, nChunks, run, pc, locals, hist, xdisk, cdisk, outputs, bdHigh>>

\* The dict a block hands to save(): the characters block builds a fresh
\* dict, the others reload the file and update it.
SavedDict(k, v, tokens) ==
    IF k = "characters"
    THEN Dict(Stage(StageLabel(k), -1), tokens, [q \in {k} |-> DumpValue(k, v)])
    ELSE Update(OrEmpty(Load(xfile)), Stage(StageLabel(k), -1), k, DumpValue(k, v), tokens)

\* One block of extract whose key is in checkpoint_data: hydrate, no call.
ExtractHydrate(k) ==
    /\ run = "extract"
    /\ pc = k
    /\ HasKey(checkpoint_data, k)
    /\ xres' = [q \in (DOMAIN xres) \cup {k} |->
                   IF q = k THEN Hydrate(k, checkpoint_data) ELSE xres[q]]
    /\ pc' = NextStage(k)
    /\ UNCHANGED <<unitVars, ended, nChunks, run, checkpoint, checkpoint_data, total_tokens_used, xret,
                   act_structure, scenes, i, scene_number, cret, breakdowns,
                   hist, xdisk, cdisk, outputs, bdHigh, faults>>

\* One block of extract whose key is not in checkpoint_data: the model calls
\* succeed, then (with a checkpoint object) the save, whatever its outcome.
ExtractCompute(k) ==
    /\ run = "extract"
    /\ pc = k
    /\ ~HasKey(checkpoint_data, k)
    /\ LET v == Compute(k, nChunks)
           tokens == total_tokens_used + CallsOf(k, nChunks) * TOKENS_PER_CALL
           d == SavedDict(k, v, tokens)
       IN  /\ xres' = [q \in (DOMAIN xres) \cup {k} |-> IF q = k THEN v ELSE xres[q]]
           /\ total_tokens_used' = tokens
           /\ calls' = calls \cup {k}
           /\ IF checkpoint
              THEN /\ checkpoint_data' = IF k = "characters" THEN checkpoint_data ELSE d
                   /\ XSave(d)
                   /\ writes' = writes \cup {k}
              ELSE UNCHANGED <<checkpoint_data, xdisk, writes, faults>>
    /\ pc' = NextStage(k)
    /\ UNCHANGED <<unitVars, ended, nChunks, run, checkpoint, xret, act_structure, scenes, i, scene_number,
                   cret, breakdowns, startData, startFile, cdisk, outputs, bdHigh>>

\* _call_llm gives up inside a block: ExtractionError leaves extract and is
\* caught by extract_bible, which returns.
ExtractLLMError(k) ==
    /\ run = "extract"
    /\ pc = k
    /\ ~HasKey(checkpoint_data, k)
    /\ ProcessEnds
    /\ ended' = Ended("raised")
    /\ UNCHANGED <<unitVars, nChunks, xdisk, cdisk, outputs, bdHigh, faults>>

\* The end of extract: style notes, StoryBible, clear() without error, return.
ExtractFinish ==
    /\ run = "extract"
    /\ pc = "finish"
    /\ xret' = StoryBible(xres)
    /\ IF checkpoint /\ xfile.kind # "none"
       THEN xfile' = Clear(xfile) /\ xLastSaved' = NoFile
       ELSE UNCHANGED xdisk
    /\ pc' = "returned"
    /\ UNCHANGED <<unitVars, ended, nChunks, run, checkpoint, checkpoint_data, total_tokens_used, xres,
                   act_structure, scenes, i, scene_number, cret, breakdowns,
                   hist, cdisk, outputs, bdHigh, faults>>

\* clear(): unlink raises; neither clear nor extract catches it.
ExtractClearFails ==
    /\ run = "extract"
    /\ pc = "finish"
    /\ checkpoint
    /\ xfile.kind # "none"
    /\ faults < MaxFaults
    /\ faults' = faults + 1
    /\ ProcessEnds
    /\ ended' = Ended("raised")
    /\ UNCHANGED <<unitVars, nChunks, xdisk, cdisk, outputs, bdHigh>>

\* extract_bible after extract returned: db.insert_story_bible.
StoreBible ==
    /\ run = "extract"
    /\ pc = "returned"
    /\ storedBible' = xret
    /\ ProcessEnds
    /\ ended' = Ended("returned")
    /\ UNCHANGED <<unitVars, nChunks, xdisk, cdisk, screenplay, breakdownFile, bdHigh, faults>>

\* ============================================================== convert
\* main.py phase2 / convert_script up to the act-structure block of convert:
\* the Story Bible and the chunks are found in the database.
ConvertStart(use_checkpoints) ==
    /\ storedBible # NoBible
    /\ screenplay = NoScreenplay
    /\ RunBegins("convert", "act", use_checkpoints, cfile)
    /\ ended' = NotEnded
    /\ UNCHANGED <<unitVars, nChunks, xdisk, cdisk, outputs, bdHigh, faults>>

\* ScreenplayCheckpoint.__init__: mkdir raises; nothing in convert catches it.
ConvertMkdirFails ==
    /\ run = "idle"
    /\ storedBible # NoBible
    /\ screenplay = NoScreenplay
    /\ faults < MaxFaults
    /\ faults' = faults + 1
    /\ UNCHANGED <<unitVars, ended, nChunks, run, pc, locals, hist, xdisk, cdisk, outputs, bdHigh>>

\* "Convert chunks to scenes" set-up: scenes and start index from the
\* checkpoint, or an empty list and index 0.
LoopSetup ==
    /\ IF HasKey(checkpoint_data, "scenes")
       THEN /\ scenes' = BuildList("ScreenplayScene", checkpoint_data.vals["scenes"])
            /\ i' = StartChunkIdx(checkpoint_data)
       ELSE /\ scenes' = <<>>
            /\ i' = 0
    /\ scene_number' = Len(scenes') + 1
    /\ pc' = "loop"

\* The act-structure block with 'act_structure' in checkpoint_data.
ConvertActHydrate ==
    /\ run = "convert"
    /\ pc = "act"
    /\ HasKey(checkpoint_data, "act_structure")
    /\ act_structure' = Obj("ActStructure", checkpoint_data.vals["act_structure"])
    /\ LoopSetup
    /\ UNCHANGED <<unitVars, ended, nChunks, run, checkpoint, checkpoint_data, total_tokens_used, xres, xret,
                   cret, breakdowns, hist, xdisk, cdisk, outputs, bdHigh, faults>>

\* The act-structure block without it: one model call, then the save.
ConvertActCompute ==
    /\ run = "convert"
    /\ pc = "act"
    /\ ~HasKey(checkpoint_data, "act_structure")
    /\ act_structure' = DetermineActStructure(nChunks)
    /\ total_tokens_used' = total_tokens_used + TOKENS_PER_CALL
    /\ calls' = calls \cup {"act_structure"}
    /\ IF checkpoint
       THEN /\ CSave(ActDict(act_structure'))
            /\ writes' = writes \cup {"act_structure"}
       ELSE UNCHANGED <<cdisk, writes, faults>>
    /\ LoopSetup
    /\ UNCHANGED <<unitVars, ended, nChunks, run, checkpoint, checkpoint_data, xres, xret, cret, breakdowns,
                   startData, startFile, xdisk, outputs, bdHigh>>

\* _call_llm gives up on the act-structure prompt: convert raises, phase2
\* catches it and returns.
ConvertActLLMError ==
    /\ run = "convert"
    /\ pc = "act"
    /\ ~HasKey(checkpoint_data, "act_structure")
    /\ ProcessEnds
    /\ ended' = Ended("raised")
    /\ UNCHANGED <<unitVars, nChunks, xdisk, cdisk, outputs, bdHigh, faults>>

\* One iteration of the chunk loop: the model call succeeds, the parsed
\* scenes are appended, and every CHECKPOINT_EVERY chunks the checkpoint is
\* saved.
ConvertChunk ==
    /\ run = "convert"
    /\ pc = "loop"
    /\ i < nChunks
    /\ LET act_position == GetActPosition(i, act_structure)
           new_scenes == ConvertChunkBatchToScenes(i, PreviousScene(scenes), act_position,
                                                   scene_number)
           tokens == total_tokens_used + TOKENS_PER_CALL
       IN  /\ scenes' = scenes \o new_scenes
           /\ scene_number' = scene_number + Len(new_scenes)
           /\ total_tokens_used' = tokens
           /\ IF checkpoint /\ (i + 1) % CHECKPOINT_EVERY = 0
              THEN /\ CSave(ScenesDict(i, scenes', act_structure, tokens))
                   /\ writes' = writes \cup {"scenes"}
              ELSE UNCHANGED <<cdisk, writes, faults>>
    /\ calls' = calls \cup {"scenes"}
    /\ i' = i + 1
    /\ UNCHANGED <<unitVars, ended, nChunks, run, pc, checkpoint, checkpoint_data, xres, xret, act_structure,
                   cret, breakdowns, startData, startFile, xdisk, outputs, bdHigh>>

\* the failed chunk-step is skipped and the loop goes on
ConvertChunkSkipped ==
    /\ run = "convert"
    /\ pc = "loop"
    /\ i < nChunks
    /\ i' = i + 1
    /\ UNCHANGED <<unitVars, ended, nChunks, run, pc, checkpoint, checkpoint_data, total_tokens_used,
                   xres, xret, act_structure, scenes, scene_number, cret, breakdowns, hist,
                   xdisk, cdisk, outputs, bdHigh, faults>>

\* _call_llm gives up on a chunk-step.
ConvertChunkLLMError ==
    /\ run = "convert"
    /\ pc = "loop"
    /\ i < nChunks
    /\ ProcessEnds
    /\ ended' = Ended("raised")
    /\ UNCHANGED <<unitVars, nChunks, xdisk, cdisk, outputs, bdHigh, faults>>

\* After the loop: renumber, build the Screenplay, clear() without error,
\* return.
ConvertFinish ==
    /\ run = "convert"
    /\ pc = "loop"
    /\ i >= nChunks
    /\ scenes' = RenumberScenes(scenes)
    /\ cret' = Screenplay(scenes', act_structure)
    /\ IF checkpoint /\ cfile.kind # "none"
       THEN cfile' = Clear(cfile) /\ cLastSaved' = NoFile
       ELSE UNCHANGED cdisk
    /\ pc' = "returned"
    /\ UNCHANGED <<unitVars, ended, nChunks, run, checkpoint, checkpoint_data, total_tokens_used, xres, xret,
                   act_structure, i, scene_number, breakdowns, hist, xdisk, outputs,
                   bdHigh, faults>>

\* clear(): unlink raises; neither clear nor convert catches it.
ConvertClearFails ==
    /\ run = "convert"
    /\ pc = "loop"
    /\ i >= nChunks
    /\ checkpoint
    /\ cfile.kind # "none"
    /\ faults < MaxFaults
    /\ faults' = faults + 1
    /\ ProcessEnds
    /\ ended' = Ended("raised")
    /\ UNCHANGED <<unitVars, nChunks, xdisk, cdisk, outputs, bdHigh>>

\* phase2 after convert returned: the screenplay is exported.
ExportScreenplay ==
    /\ run = "convert"
    /\ pc = "returned"
    /\ screenplay' = cret
    /\ ProcessEnds
    /\ ended' = Ended("returned")
    /\ UNCHANGED <<unitVars, nChunks, xdisk, cdisk, storedBible, breakdownFile, bdHigh, faults>>

\* ====================================================== scene breakdown
\* breakdown_scenes: the screenplay export and the Story Bible are loaded
\* and process_all_scenes starts with an empty list.
BreakdownStart ==
    /\ run = "idle"
    /\ screenplay # NoScreenplay
    /\ breakdownFile = <<>>
    /\ run' = "breakdown"
    /\ pc' = "scene"
    /\ i' = 0
    /\ breakdowns' = <<>>
    /\ total_tokens_used' = 0
    /\ ended' = NotEnded
    /\ UNCHANGED <<unitVars, nChunks, checkpoint, checkpoint_data, xres, xret, act_structure, scenes,
                   scene_number, cret, hist, xdisk, cdisk, outputs, bdHigh, faults>>

\* process_scene's result, reduced to the scene it belongs to.
ProcessScene(scene) == Obj("SceneBreakdown", [scene_number |-> scene.d.scene_number])

\* One iteration of process_all_scenes: process_scene succeeds.
BreakdownScene ==
    /\ run = "breakdown"
    /\ pc = "scene"
    /\ i < Len(screenplay.scenes)
    /\ breakdowns' = Append(breakdowns, ProcessScene(screenplay.scenes[i + 1]))
    /\ total_tokens_used' = total_tokens_used + TOKENS_PER_CALL
    /\ i' = i + 1
    /\ UNCHANGED <<unitVars, ended, nChunks, run, pc, checkpoint, checkpoint_data, xres, xret, act_structure,
                   scenes, scene_number, cret, hist, xdisk, cdisk, outputs, bdHigh, faults>>

\* _call_llm gives up (or the response has no usable JSON) in process_scene:
\* the exception leaves process_all_scenes.
BreakdownLLMError ==
    /\ run = "breakdown"
    /\ pc = "scene"
    /\ i < Len(screenplay.scenes)
    /\ bdHigh' = IF i > bdHigh THEN i ELSE bdHigh
    /\ ProcessEnds
    /\ ended' = Ended("raised")
    /\ UNCHANGED <<unitVars, nChunks, xdisk, cdisk, outputs, faults>>

\* process_all_scenes returns and the breakdowns are exported.
BreakdownFinish ==
    /\ run = "breakdown"
    /\ pc = "scene"
    /\ i >= Len(screenplay.scenes)
    /\ breakdownFile' = <<breakdowns>>
    /\ ProcessEnds
    /\ ended' = Ended("returned")
    /\ UNCHANGED <<unitVars, nChunks, xdisk, cdisk, storedBible, screenplay, bdHigh, faults>>

\* External process termination at any point of a run.
Crash ==
    /\ run # "idle"
    /\ ProcessEnds
    /\ ended' = Ended("killed")
    /\ UNCHANGED <<unitVars, nChunks, xdisk, cdisk, outputs, bdHigh, faults>>

Next ==
    \/ \E u \in UseCheckpoints : ExtractStart(u)
    \/ ExtractMkdirFails
    \/ \E k \in SubStageSet : ExtractHydrate(k)
    \/ \E k \in SubStageSet : ExtractCompute(k)
    \/ \E k \in SubStageSet : ExtractLLMError(k)
    \/ ExtractFinish
    \/ ExtractClearFails
    \/ StoreBible
    \/ \E u \in UseCheckpoints : ConvertStart(u)
    \/ ConvertMkdirFails
    \/ ConvertActHydrate
    \/ ConvertActCompute
    \/ ConvertActLLMError
    \/ ConvertChunk
    \/ ConvertChunkLLMError
    \/ ConvertFinish
    \/ ConvertClearFails
    \/ ExportScreenplay
    \/ BreakdownStart
    \/ BreakdownScene
    \/ BreakdownLLMError
    \/ BreakdownFinish
    \/ Crash

Spec == Init /\ [][Next]_vars

\* ================================================================ claims
\* C1: with deterministic model responses, an extract resumed from any
\* checkpoint returns the StoryBible of a run started without a checkpoint.
C1_ResumeEquivalence ==
    (run = "extract" /\ pc = "returned") => xret = StoryBible(FreshResults(nChunks))

\* C1 witness: an extract that started from a checkpoint holding only the
\* completed characters sub-stage has returned.
C1_Witness ==
    /\ run = "extract"
    /\ pc = "returned"
    /\ startData.stage.name = "characters_complete"
    /\ DOMAIN startData.vals = {"characters"}
    /\ calls = SubStageSet \ {"characters"}

\* C2: over any sequence of crashes and re-invocations, the scene list
\* convert finally returns is that of an uninterrupted run: every chunk-step
\* contributes its scenes exactly once, in chunk order.
C2_ConvertResumeEquivalence ==
    (run = "convert" /\ pc = "returned")
        => cret.scenes = RenumberScenes(UninterruptedScenes(0, nChunks, <<>>))

\* C2 witness: a convert that resumed from a scene checkpoint has returned
\* a non-empty scene list.
C2_Witness ==
    /\ run = "convert"
    /\ pc = "returned"
    /\ HasKey(startData, "scenes")
    /\ startData.vals["last_processed_chunk_idx"] = CHECKPOINT_EVERY - 1
    /\ Len(startData.vals["scenes"]) > 0
    /\ Len(cret.scenes) > Len(startData.vals["scenes"])

\* C3: at every instant a checkpoint file holds a complete snapshot, never a
\* truncated or partially written one.
C3_AtomicSave == xfile.kind # "trunc" /\ cfile.kind # "trunc"

\* C4: a save of the extraction checkpoint never drops the key of an earlier
\* sub-stage; keys leave the file only when it is cleared.
C4_SavePreservesKeys ==
    [][(xfile.kind = "ok" /\ xfile'.kind = "ok")
            => DOMAIN xfile.vals \subseteq DOMAIN xfile'.vals]_vars

ExtractAborts == (\E k \in SubStageSet : ExtractLLMError(k)) \/ ExtractClearFails

ConvertAborts == ConvertActLLMError \/ ConvertChunkLLMError \/ ConvertClearFails

\* C5: a run that aborts with an error leaves its checkpoint file as it is,
\* and the file then holds the last successfully saved snapshot.
C5_AbortKeepsSnapshot ==
    [][/\ ExtractAborts => (xfile' = xfile /\ (xLastSaved.kind = "ok" => xfile' = xLastSaved))
       /\ ConvertAborts => (cfile' = cfile /\ (cLastSaved.kind = "ok" => cfile' = cLastSaved))
      ]_vars

\* C6: a sub-stage whose key is in the checkpoint loaded at the start of
\* extract issues no model call and does not rewrite the checkpoint.
C6_LoadedKeysSkipped ==
    run = "extract" =>
        \A k \in DOMAIN startData.vals : k \notin calls /\ k \notin writes

\* C7: a re-invoked stage continues from saved progress: a convert resumed
\* from a scene checkpoint is never before the chunk after the recorded one,
\* and a scene-breakdown run is never before a scene that an earlier,
\* unfinished run already completed.
C7_StagesResume ==
    /\ (run = "convert" /\ pc = "loop" /\ HasKey(startData, "scenes"))
          => i > startData.vals["last_processed_chunk_idx"]
    /\ (run = "breakdown" /\ pc = "scene") => i >= bdHigh

\* C8: no checkpoint I/O error ends a run: after a failing save(), clear()
\* or checkpoint-directory creation the run is still going.
C8_CheckpointIONonFatal == [][faults' # faults => run' # "idle"]_vars

\* Model calls of an extract that computed every block it has passed.
FreshExtractTokens ==
    LET done == {k \in SubStageSet : k \in DOMAIN xres}
        RECURSIVE Sum(_)
        Sum(S) == IF S = {} THEN 0
                  ELSE LET k == CHOOSE q \in S : TRUE
                       IN  CallsOf(k, nChunks) * TOKENS_PER_CALL + Sum(S \ {k})
    IN  Sum(done)

\* C9: when the checkpoint file is missing or unparseable, load returns
\* nothing and the stage runs as without a checkpoint: every sub-stage or
\* chunk-step it has passed was computed by model calls of this run.
C9_LoadFailureIsNoCheckpoint ==
    /\ (run \in {"extract", "convert"} /\ startFile.kind # "ok") => startData = None
    /\ (run = "extract" /\ startFile.kind # "ok")
          => (DOMAIN xres \subseteq calls /\ total_tokens_used = FreshExtractTokens)
    /\ (run = "convert" /\ pc = "loop" /\ startFile.kind # "ok")
          => ("act_structure" \in calls /\ total_tokens_used = (1 + i) * TOKENS_PER_CALL)

\* C9 witness: an extract that found a truncated checkpoint file has
\* returned.
C9_Witness ==
    /\ run = "extract"
    /\ pc = "returned"
    /\ startFile.kind = "trunc"
    /\ DOMAIN startFile.vals # {}

\* C10: when extract returns with checkpointing enabled, no checkpoint file
\* of the novel exists; a 3-chunk novel with a stub returning one character
\* and one location per call yields exactly 1 character and 1 location.
C10_NoCheckpointAfterSuccess ==
    (run = "extract" /\ pc = "returned" /\ checkpoint)
        => /\ ~Exists(xfile)
           /\ nChunks = 3 => (Len(xret.characters) = 1 /\ Len(xret.locations) = 1)

\* C10 witness: extract of a 3-chunk novel has returned after saving its
\* last sub-stage to the checkpoint.
C10_Witness ==
    /\ run = "extract"
    /\ pc = "returned"
    /\ checkpoint
    /\ nChunks = 3
    /\ "timeline" \in writes

\* ============================================================== _call_llm
\* The retry loop of the three model callers, one backend invocation per
\* step.  The backend is free at every attempt: it answers with a text from
\* which JSON can be recovered ("json"), with a text from which none can
\* ("prose"), or raises.
max_retries == 10
base_delay == 2
MAX_WAIT == 60
OTHER_ERROR_RETRIES == 3

Callers == {"extractor", "converter", "breakdown"}

Responses == {"json", "prose"}

\* str(e) of the exceptions the backend raises.
BackendErrors == {"overloaded_error", "rate_limit_error", "connection_error"}

\* json.JSONDecodeError("Could not parse or extract JSON", response_text, 0)
JSONDecodeError == "JSONDecodeError"

is_overload(e) == e = "overloaded_error"

is_rate_limit(e) == e = "rate_limit_error"

Min(a, b) == IF a < b THEN a ELSE b

\* wait_time = base_delay * (2 ** attempt), without the cap
OverloadWaitUncapped(att) == base_delay * (2 ^ att)

\* wait_time = min(base_delay * (2 ** attempt), 60)
OverloadWait(att) == Min(base_delay * (2 ^ att), MAX_WAIT)

\* wait_time = base_delay * (attempt + 1)
OtherWait(att) == base_delay * (att + 1)

\* ScreenplayConverter.convert / process_scene / the extract sub-stages call
\* _call_llm.  SceneBreakdownExtractor._call_llm has no expect_json
\* parameter and always coerces.
CallBegins(c, ej) ==
    /\ llmOutcome = "idle"
    /\ run = "idle"
    /\ c = "breakdown" => ej
    /\ llmCaller' = c
    /\ expect_json' = ej
    /\ llmOutcome' = "running"
    /\ UNCHANGED <<pvars, textVars, parseVars, attempt, invocations, wait_times, errors, llmResult>>

\* One pass of the loop body in which messages.create answers with text r.
\* The text is returned unless JSON is expected and cannot be recovered; the
\* JSONDecodeError raised then is caught by the loop's own except clause.
Accepted(r) == ~expect_json \/ r = "json"

\* the other errors counted by a counter of their own
RetriedOwnCounter(e) ==
    IF is_overload(e) \/ is_rate_limit(e) THEN attempt < max_retries - 1
    ELSE Cardinality({n \in 1..Len(errors) :
                        ~(is_overload(errors[n]) \/ is_rate_limit(errors[n]))})
            < OTHER_ERROR_RETRIES

\* What the except clause does with exception e at the current attempt:
\* sleep and continue, or leave the loop with an exception.
Retried(e) ==
    IF is_overload(e) \/ is_rate_limit(e) THEN attempt < max_retries - 1
    ELSE attempt < OTHER_ERROR_RETRIES

Handle(e) ==
    /\ errors' = Append(errors, e)
    /\ IF Retried(e)
       THEN /\ wait_times' = Append(wait_times,
                                    IF is_overload(e) \/ is_rate_limit(e)
                                    THEN OverloadWait(attempt) ELSE OtherWait(attempt))
            /\ attempt' = attempt + 1
            /\ UNCHANGED llmOutcome
       ELSE /\ llmOutcome' = IF llmCaller = "extractor" THEN "ExtractionError" ELSE "reraised"
            /\ UNCHANGED <<wait_times, attempt>>

InvokeResponds(r) ==
    /\ llmOutcome = "running"
    /\ attempt < max_retries
    /\ invocations' = invocations + 1
    /\ IF Accepted(r)
       THEN /\ llmOutcome' = "returned"
            /\ llmResult' = [kind |-> r]
            /\ UNCHANGED <<attempt, wait_times, errors>>
       ELSE /\ Handle(JSONDecodeError)
            /\ UNCHANGED llmResult
    /\ UNCHANGED <<pvars, textVars, parseVars, llmCaller, expect_json>>

\* One pass of the loop body in which messages.create raises e.
InvokeRaises(e) ==
    /\ llmOutcome = "running"
    /\ attempt < max_retries
    /\ invocations' = invocations + 1
    /\ Handle(e)
    /\ UNCHANGED <<pvars, textVars, parseVars, llmCaller, expect_json, llmResult>>

\* The call is over; the next one is observed.
CallEnds ==
    /\ llmOutcome \in {"returned", "ExtractionError", "reraised"}
    /\ llmCaller' = "none"
    /\ expect_json' = FALSE
    /\ attempt' = 0
    /\ invocations' = 0
    /\ wait_times' = <<>>
    /\ errors' = <<>>
    /\ llmOutcome' = "idle"
    /\ llmResult' = NoText
    /\ UNCHANGED <<pvars, textVars, parseVars>>

NextCall ==
    \/ \E c \in Callers, ej \in BOOLEAN : CallBegins(c, ej)
    \/ \E r \in Responses : InvokeResponds(r)
    \/ \E e \in BackendErrors : InvokeRaises(e)
    \/ CallEnds

InitCall == Init /\ nChunks = 1

SpecCall == InitCall /\ [][NextCall]_vars

AllOverloaded == \A n \in 1..Len(errors) : is_overload(errors[n]) \/ is_rate_limit(errors[n])

NoneOverloaded == \A n \in 1..Len(errors) : ~(is_overload(errors[n]) \/ is_rate_limit(errors[n]))

\* C11: in all three callers a _call_llm that gives up raises ExtractionError,
\* and a _call_llm that returns returns the text of a backend response.
C11_FailureIsExtractionError ==
    /\ llmOutcome \in {"idle", "running", "returned", "ExtractionError"}
    /\ llmOutcome = "returned" => llmResult # NoText

\* C12: when every attempt fails with an overload or rate-limit error the
\* backend is invoked exactly 10 times, the waits after the first nine
\* failures are 2, 4, 8, 16, 32, 60, 60, 60, 60 seconds, and the tenth failure
\* ends the call without a wait.
C12_OverloadBackoff ==
    /\ (llmOutcome \in {"ExtractionError", "reraised"} /\ AllOverloaded) =>
           /\ invocations = 10
           /\ wait_times = <<2, 4, 8, 16, 32, 60, 60, 60, 60>>
    /\ (llmOutcome = "running" /\ AllOverloaded) =>
           /\ invocations = Len(errors)
           /\ Len(wait_times) = Len(errors)
           /\ \A k \in 0..(Len(errors) - 1) :
                  wait_times[k + 1] = Min(base_delay * (2 ^ k), 60)

\* C12 witness: StoryBibleExtractor._call_llm has given up after ten
\* overload / rate-limit errors.
C12_Witness ==
    /\ llmCaller = "extractor"
    /\ llmOutcome = "ExtractionError"
    /\ Len(errors) = 10
    /\ AllOverloaded

\* C13: when every attempt fails with an error that is neither overload nor
\* rate-limit, the backend is invoked 3 times in total, with waits of
\* base_delay * 1 and base_delay * 2 between the attempts, and the call fails.
C13_OtherErrorBudget ==
    (llmOutcome \in {"ExtractionError", "reraised"} /\ NoneOverloaded) =>
        /\ invocations = 3
        /\ wait_times = <<base_delay * 1, base_delay * 2>>

\* ================================================= handling model outputs
\* The functions of StoryBibleExtractor and ScreenplayConverter that turn
\* model outputs into objects, one _call_llm per step.  The model is free:
\* each output is any array of up to MaxArrayLen elements, an object, a text
\* from which _call_llm recovers no JSON, or no output at all because the
\* backend keeps failing.  In the last two cases _call_llm raises.
BatchFns == {"_extract_characters", "_extract_locations"}

SimpleFns == {"_extract_tone", "_extract_plot", "_extract_world_rules", "_extract_timeline"}

ActFn == "_determine_act_structure"

\* One len(chunks) for each number of batches.
BatchChunkCounts == {m \in 1..MaxChunks : m % BATCH_SIZE = 1}

\* Array elements: ok tells whether CharacterProfile(**d) / Location(**d)
\* accepts the element, v tells elements of the same name apart.
Elements ==
    {[name |-> "Hall", ok |-> TRUE, v |-> 1], [name |-> "Hall", ok |-> TRUE, v |-> 2],
     [name |-> "Garden", ok |-> TRUE, v |-> 1], [name |-> "Hall", ok |-> FALSE, v |-> 3]}

RECURSIVE Arrays(_)
Arrays(len) ==
    IF len = 0 THEN {<<>>}
    ELSE Arrays(len - 1) \cup
         {Append(a, e) : a \in {b \in Arrays(len - 1) : Len(b) = len - 1}, e \in Elements}

\* Objects: ok tells whether the pydantic class accepts the object.
Objects == {[ok |-> TRUE, v |-> 1], [ok |-> FALSE, v |-> 1]}

CallFailures == {Resp("prose", <<>>), Resp("error", <<>>)}

BatchResponses ==
    {Resp("array", a) : a \in Arrays(MaxArrayLen)} \cup {Resp("object", <<[ok |-> FALSE, v |-> 1]>>)}
        \cup CallFailures

SimpleResponses ==
    {Resp("object", <<o>>) : o \in Objects} \cup {Resp("array", <<>>)} \cup CallFailures

\* _call_llm(prompt, expect_json=True) raises ExtractionError: no JSON could
\* be recovered at attempts 0..3, or the backend failed at every attempt.
CallRaises(resp) == resp.kind \in {"prose", "error"}

AllValid(items) == \A n \in 1..Len(items) : items[n].ok

RECURSIVE ValidPrefix(_)
\* The elements the for loop appends before an element raises.
ValidPrefix(items) ==
    IF items = <<>> \/ ~Head(items).ok THEN <<>>
    ELSE <<Head(items)>> \o ValidPrefix(Tail(items))

\* for profile_dict in profiles_data: all_profiles.append(CharacterProfile(**profile_dict))
\* Iterating an object yields its keys, on which CharacterProfile(**key) raises.
AppendProfiles(profiles, resp) ==
    IF resp.kind = "array"
    THEN profiles \o BuildList("CharacterProfile", ValidPrefix(resp.body))
    ELSE profiles

\* "if loc_dict['name'] not in location_names_seen", with a variant that
\* never finds the name.
NameSeenNever(name, seen) == FALSE

NameSeen(name, seen) == name \in seen

RECURSIVE AppendLocations(_, _, _)
\* The body of the try block of _extract_locations on the elements items:
\* the lists after the loop ended or an element raised.
AppendLocations(items, locs, seen) ==
    IF items = <<>> THEN [locs |-> locs, seen |-> seen]
    ELSE IF NameSeen(Head(items).name, seen) THEN AppendLocations(Tail(items), locs, seen)
    ELSE IF ~Head(items).ok THEN [locs |-> locs, seen |-> seen]
    ELSE AppendLocations(Tail(items), Append(locs, Obj("Location", Head(items))),
                         seen \cup {Head(items).name})

\* "if len(profiles) <= 5: return profiles", with an off-by-one variant.
NeedsMergeFromThreshold(profiles) == Len(profiles) >= MERGE_THRESHOLD

NeedsMerge(profiles) == Len(profiles) > MERGE_THRESHOLD

\* Outputs of the model for the merge prompt.
MergeResponses(profiles) ==
    {Resp("array", Dedup(DumpList(profiles), {})),
     Resp("array", <<[name |-> "Hall", ok |-> FALSE, v |-> 3]>>),
     Resp("object", <<[ok |-> FALSE, v |-> 1]>>)} \cup CallFailures

\* The hand-coded objects of the except branches.
Default(f) ==
    CASE f = "_extract_tone" -> Obj("NarrativeTone", [mood |-> "neutral"])
      [] f = "_extract_plot" -> Obj("PlotSummary", [logline |-> ""])
      [] f = "_extract_world_rules" -> Obj("list", <<>>)
      [] f = "_extract_timeline" -> Obj("TimelinePeriod", [era |-> "Modern"])

ClassOf(f) ==
    CASE f = "_extract_tone" -> "NarrativeTone"
      [] f = "_extract_plot" -> "PlotSummary"
      [] f = "_extract_timeline" -> "TimelinePeriod"

\* What the try block of a single-call function returns for JSON output resp.
\* _extract_world_rules returns json.loads(result) as it is.
ParseSimple(f, resp) ==
    IF f = "_extract_world_rules"
    THEN IF resp.kind = "array" THEN Obj("list", resp.body) ELSE Obj("dict", resp.body[1])
    ELSE IF resp.kind = "object" /\ resp.body[1].ok THEN Obj(ClassOf(f), resp.body[1])
    ELSE Default(f)

\* Chunk indices the model may name in an act range.
ActIndices == 0..(MaxActChunks - 1)

ActRanges == ActIndices \X ActIndices

\* act_data of an output that names four ranges.
ActData(r1, r2, r3, r4) ==
    [act_one_chunk_range |-> r1, act_two_a_chunk_range |-> r2,
     act_two_b_chunk_range |-> r3, act_three_chunk_range |-> r4]

\* A function is called on the chunks of a novel.
FnBegins(f, n) ==
    /\ fpc = "idle"
    /\ run = "idle"
    /\ llmOutcome = "idle"
    /\ fn' = f
    /\ chunk_count' = n
    /\ fpc' = IF f \in BatchFns THEN "batch" ELSE "call"
    /\ UNCHANGED <<pvars, textVars, callVars, batch, all_profiles, all_locations, location_names_seen,
                   fresult, lastResp, sent, mergeCalls>>

\* One pass of the batch loop of _extract_characters.
CharacterBatch ==
    /\ fn = "_extract_characters"
    /\ fpc = "batch"
    /\ batch < NumBatches(chunk_count)
    /\ \E resp \in BatchResponses :
        /\ sent' = sent + 1
        /\ lastResp' = resp
        /\ IF CallRaises(resp)
           THEN /\ fpc' = "raised"
                /\ UNCHANGED <<batch, all_profiles>>
           ELSE /\ all_profiles' = AppendProfiles(all_profiles, resp)
                /\ batch' = batch + 1
                /\ UNCHANGED fpc
        /\ UNCHANGED <<pvars, textVars, callVars, fn, chunk_count, all_locations, location_names_seen,
                       fresult, mergeCalls>>

\* After the loop: no profile at all, or _merge_duplicate_characters returns
\* its argument without a model call.
CharactersUnmerged ==
    /\ fn = "_extract_characters"
    /\ fpc = "batch"
    /\ batch = NumBatches(chunk_count)
    /\ Len(all_profiles) = 0 \/ ~NeedsMerge(all_profiles)
    /\ fresult' = <<all_profiles>>
    /\ fpc' = "returned"
    /\ UNCHANGED <<pvars, textVars, callVars, fn, chunk_count, batch, all_profiles, all_locations,
                   location_names_seen, lastResp, sent, mergeCalls>>

\* After the loop: _merge_duplicate_characters asks the model.
CharactersMerged ==
    /\ fn = "_extract_characters"
    /\ fpc = "batch"
    /\ batch = NumBatches(chunk_count)
    /\ Len(all_profiles) > 0
    /\ NeedsMerge(all_profiles)
    /\ \E resp \in MergeResponses(all_profiles) :
        /\ mergeCalls' = mergeCalls + 1
        /\ lastResp' = resp
        /\ IF CallRaises(resp)
           THEN fpc' = "raised" /\ UNCHANGED fresult
           ELSE /\ fpc' = "returned"
                /\ fresult' = IF resp.kind = "array" /\ AllValid(resp.body)
                              THEN <<BuildList("CharacterProfile", resp.body)>>
                              ELSE <<all_profiles>>
        /\ UNCHANGED <<pvars, textVars, callVars, fn, chunk_count, batch, all_profiles, all_locations,
                       location_names_seen, sent>>

\* One pass of the batch loop of _extract_locations.
LocationBatch ==
    /\ fn = "_extract_locations"
    /\ fpc = "batch"
    /\ batch < NumBatches(chunk_count)
    /\ \E resp \in BatchResponses :
        /\ sent' = sent + 1
        /\ lastResp' = resp
        /\ IF CallRaises(resp)
           THEN /\ fpc' = "raised"
                /\ UNCHANGED <<batch, all_locations, location_names_seen>>
           ELSE /\ LET after == IF resp.kind = "array"
                                THEN AppendLocations(resp.body, all_locations, location_names_seen)
                                ELSE [locs |-> all_locations, seen |-> location_names_seen]
                   IN  /\ all_locations' = after.locs
                       /\ location_names_seen' = after.seen
                /\ batch' = batch + 1
                /\ UNCHANGED fpc
        /\ UNCHANGED <<pvars, textVars, callVars, fn, chunk_count, all_profiles, fresult, mergeCalls>>

\* return all_locations
LocationsReturned ==
    /\ fn = "_extract_locations"
    /\ fpc = "batch"
    /\ batch = NumBatches(chunk_count)
    /\ fresult' = <<all_locations>>
    /\ fpc' = "returned"
    /\ UNCHANGED <<pvars, textVars, callVars, fn, chunk_count, batch, all_profiles, all_locations,
                   location_names_seen, lastResp, sent, mergeCalls>>

\* _extract_tone, _extract_plot, _extract_world_rules, _extract_timeline
SimpleCall ==
    /\ fn \in SimpleFns
    /\ fpc = "call"
    /\ \E resp \in SimpleResponses :
        /\ sent' = sent + 1
        /\ lastResp' = resp
        /\ IF CallRaises(resp)
           THEN fpc' = "raised" /\ UNCHANGED fresult
           ELSE fpc' = "returned" /\ fresult' = <<ParseSimple(fn, resp)>>
        /\ UNCHANGED <<pvars, textVars, callVars, fn, chunk_count, batch, all_profiles, all_locations,
                       location_names_seen, mergeCalls>>

\* _determine_act_structure: the four ranges of the output become the
\* ActStructure as they are.
ActCall ==
    /\ fn = ActFn
    /\ fpc = "call"
    /\ sent' = sent + 1
    /\ \/ \E resp \in CallFailures :
            /\ lastResp' = resp
            /\ fpc' = "raised"
            /\ UNCHANGED fresult
       \/ \E r1 \in ActRanges, r2 \in ActRanges, r3 \in ActRanges, r4 \in ActRanges :
            /\ lastResp' = Resp("object", <<ActData(r1, r2, r3, r4)>>)
            /\ fpc' = "returned"
            /\ fresult' = <<Obj("ActStructure", ActData(r1, r2, r3, r4))>>
    /\ UNCHANGED <<pvars, textVars, callVars, fn, chunk_count, batch, all_profiles, all_locations,
                   location_names_seen, mergeCalls>>

\* The function is over; the next one is observed.
FnEnds ==
    /\ fpc \in {"returned", "raised"}
    /\ fn' = "none"
    /\ fpc' = "idle"
    /\ chunk_count' = 0
    /\ batch' = 0
    /\ all_profiles' = <<>>
    /\ all_locations' = <<>>
    /\ location_names_seen' = {}
    /\ fresult' = NoValue
    /\ lastResp' = NoResp
    /\ sent' = 0
    /\ mergeCalls' = 0
    /\ UNCHANGED <<pvars, textVars, callVars>>

NextParse ==
    \/ \E f \in BatchFns, n \in BatchChunkCounts : FnBegins(f, n)
    \/ \E f \in SimpleFns \cup {ActFn} : FnBegins(f, MaxActChunks)
    \/ CharacterBatch
    \/ CharactersUnmerged
    \/ CharactersMerged
    \/ LocationBatch
    \/ LocationsReturned
    \/ SimpleCall
    \/ ActCall
    \/ FnEnds

InitParse == Init /\ nChunks = 1

SpecParse == InitParse /\ [][NextParse]_vars

\* json.loads(result) has the structure the function expects.
Parses(f, resp) ==
    IF f = "_extract_world_rules" THEN resp.kind = "array"
    ELSE resp.kind = "object" /\ resp.body[1].ok

\* C14: _extract_tone, _extract_plot, _extract_world_rules and
\* _extract_timeline never raise on a model output that cannot be parsed into
\* the expected structure, also when no JSON can be recovered from it: they
\* return their hand-coded default.
C14_ParseFailureGivesDefault ==
    (/\ fn \in SimpleFns
     /\ fpc \in {"returned", "raised"}
     /\ lastResp.kind # "error"
     /\ ~Parses(fn, lastResp)) =>
        (fpc = "returned" /\ fresult = <<Default(fn)>>)

\* C15: a character or location batch whose model output cannot be parsed as
\* JSON does not abort the extraction.
C15_UnparseableBatchSkipped ==
    (fn \in BatchFns /\ batch < NumBatches(chunk_count) /\ lastResp.kind = "prose") =>
        fpc # "raised"

\* C16: a batch whose array holds an element that fails validation adds none
\* of its elements to the accumulated list.
C16_FailedBatchAddsNothing ==
    [][(/\ fn \in BatchFns
        /\ sent' = sent + 1
        /\ lastResp'.kind = "array"
        /\ ~AllValid(lastResp'.body)) =>
           (all_profiles' = all_profiles /\ all_locations' = all_locations)]_vars

\* C17: with 5 or fewer accumulated profiles _extract_characters issues no
\* merge request and returns the list unchanged; with more than 5 it issues
\* exactly one merge request.
C17_MergeOnlyAboveFive ==
    fn = "_extract_characters" =>
        /\ mergeCalls <= 1
        /\ Len(all_profiles) <= 5 =>
               /\ mergeCalls = 0
               /\ fpc = "returned" => fresult = <<all_profiles>>
        /\ (/\ Len(all_profiles) > 5
            /\ fpc \in {"returned", "raised"}
            /\ batch = NumBatches(chunk_count)) => mergeCalls = 1

\* C17 witness: _extract_characters has returned after accumulating more
\* than 5 profiles and issuing one merge request.
C17_Witness ==
    /\ fn = "_extract_characters"
    /\ fpc = "returned"
    /\ Len(all_profiles) > 5
    /\ mergeCalls = 1

\* C18: when the merge request fails, by a failing model call or by an output
\* that cannot be parsed or validated, _merge_duplicate_characters returns
\* the unmerged list and the extraction goes on.
C18_MergeFailureKeepsList ==
    (/\ fn = "_extract_characters"
     /\ mergeCalls = 1
     /\ fpc \in {"returned", "raised"}
     /\ ~(lastResp.kind = "array" /\ AllValid(lastResp.body))) =>
        (fpc = "returned" /\ fresult = <<all_profiles>>)

\* State part: names are unique and location_names_seen tells them.
C19_NoTwoOfOneName ==
    fn = "_extract_locations" =>
        /\ \A p, q \in 1..Len(all_locations) :
               all_locations[p].d.name = all_locations[q].d.name => p = q
        /\ location_names_seen = {all_locations[p].d.name : p \in 1..Len(all_locations)}
        /\ fpc = "returned" => fresult = <<all_locations>>

\* Step part: a batch adds the first occurrence of each new name.
C19_FirstOccurrenceKept ==
    [][(/\ fn = "_extract_locations"
        /\ sent' = sent + 1
        /\ lastResp'.kind = "array"
        /\ AllValid(lastResp'.body)) =>
           DumpList(all_locations') = Dedup(DumpList(all_locations) \o lastResp'.body, {})]_vars

WellFormedActs(act, n) ==
    LET r1 == act.d.act_one_chunk_range
        r2 == act.d.act_two_a_chunk_range
        r3 == act.d.act_two_b_chunk_range
        r4 == act.d.act_three_chunk_range
    IN  /\ r1[1] = 0
        /\ r1[1] <= r1[2]
        /\ r2[1] = r1[2] + 1
        /\ r2[1] <= r2[2]
        /\ r3[1] = r2[2] + 1
        /\ r3[1] <= r3[2]
        /\ r4[1] = r3[2] + 1
        /\ r4[1] <= r4[2]
        /\ r4[2] = n - 1

\* C20: every ActStructure _determine_act_structure returns has four ranges
\* that are contiguous, non-overlapping, increasing and cover
\* [0, chunk_count-1] exactly once.
C20_ActStructureWellFormed ==
    (fn = ActFn /\ fpc = "returned") => WellFormedActs(fresult[1], chunk_count)

\* ======================================================= conversion order
\* C21: in the Screenplay convert returns, the scene_number values of the N
\* scenes are 1..N in list order, whatever number of scenes each chunk-step
\* produced and whether or not the run resumed from a checkpoint.
C21_SceneNumbersContiguous ==
    (run = "convert" /\ pc = "returned") =>
        /\ \A j \in 1..Len(cret.scenes) : cret.scenes[j].d.scene_number = j
        /\ cret.scene_count = Len(cret.scenes)

\* C21 witness: a convert resumed from a scene checkpoint has returned; the
\* steps after the resume produced two, no and one scene.
C21_Witness ==
    /\ run = "convert"
    /\ pc = "returned"
    /\ HasKey(startData, "scenes")
    /\ nChunks >= startData.vals["last_processed_chunk_idx"] + 4
    /\ Len(cret.scenes) >= Len(startData.vals["scenes"]) + 3

\* C28: the tokens_used of a stage's checkpoint is the usage of all model
\* calls made for the stage so far: from one save to the next it never
\* decreases, also across a resume, and a resumed run's counter starts from
\* the checkpointed value.
C28_TokensAccumulate ==
    [][/\ (xfile.kind = "ok" /\ xfile'.kind = "ok" /\ xfile.tokens >= 0 /\ xfile'.tokens >= 0)
             => xfile'.tokens >= xfile.tokens
       /\ (cfile.kind = "ok" /\ cfile'.kind = "ok" /\ cfile.tokens >= 0 /\ cfile'.tokens >= 0)
             => cfile'.tokens >= cfile.tokens
       /\ (run = "idle" /\ run' \in {"extract", "convert"} /\ checkpoint_data'.tokens >= 0)
             => total_tokens_used' = checkpoint_data'.tokens]_vars

\* C29: convert takes the chunk indices one by one in increasing order up to
\* N-1, and the previous-scene context of chunk-step i is the last scene of
\* the list accumulated before the step (hydrated from the checkpoint or
\* produced by earlier steps), absent only while the list is empty.
C29_SequentialSteps ==
    [][(run = "convert" /\ pc = "loop" /\ run' = "convert" /\ i' # i) =>
          /\ i' = i + 1
          /\ i < nChunks
          /\ Len(scenes') >= Len(scenes)
          /\ \A j \in 1..Len(scenes) : scenes'[j] = scenes[j]
          /\ \A j \in (Len(scenes) + 1)..Len(scenes') :
                /\ scenes'[j].d.src = i
                /\ scenes'[j].d.after =
                      (IF Len(scenes) = 0 THEN 0 ELSE scenes[Len(scenes)].d.scene_number)]_vars

\* C29 witness: a convert resumed from a scene checkpoint, two steps after
\* the resume; the first of them got the last checkpointed scene as context.
C29_Witness ==
    /\ run = "convert"
    /\ pc = "loop"
    /\ HasKey(startData, "scenes")
    /\ i = startData.vals["last_processed_chunk_idx"] + 3
    /\ Len(scenes) > Len(startData.vals["scenes"])
    /\ scenes[Len(startData.vals["scenes"]) + 1].d.after = Len(startData.vals["scenes"])

\* The scenes an uninterrupted convert produces in steps 0 .. k.
ScenesThrough(k) ==
    LET InSteps(s) == s.d.src <= k
    IN  SelectSeq(UninterruptedScenes(0, nChunks, <<>>), InSteps)

\* The snapshot of a scene checkpoint: index, act structure and the scenes
\* of steps 0 .. index.
SceneSnapshotExact(f) ==
    ("scenes" \in DOMAIN f.vals) =>
        LET k == f.vals["last_processed_chunk_idx"]
        IN  /\ (k + 1) % 10 = 0
            /\ f.stage = Stage("scenes_through_chunk", k)
            /\ f.vals["act_structure"] = ModelDump(DetermineActStructure(nChunks))
            /\ f.vals["scenes"] = DumpList(ScenesThrough(k))

\* Completed chunk-steps that the checkpoint file does not hold.
Rework == IF cfile.kind = "ok" /\ "scenes" \in DOMAIN cfile.vals
          THEN i - (cfile.vals["last_processed_chunk_idx"] + 1) ELSE i

C30_StatePart ==
    /\ cfile.kind = "ok" => SceneSnapshotExact(cfile)
    /\ (run = "convert" /\ pc = "loop" /\ checkpoint) => Rework <= 9

C30_StepPart ==
    [][/\ (run = "convert" /\ pc = "loop" /\ run' = "convert" /\ i' # i /\ checkpoint) =>
             ((cdisk' # cdisk \/ faults' # faults) <=> (i + 1) % 10 = 0)
       /\ (run = "convert" /\ pc = "act" /\ pc' = "loop" /\ HasKey(checkpoint_data, "scenes")) =>
             i' = checkpoint_data.vals["last_processed_chunk_idx"] + 1]_vars

\* C30: with checkpoints enabled convert saves after chunk-step i exactly
\* when i+1 is a multiple of 10; the snapshot holds last_processed_chunk_idx
\* = i, the act structure and the scenes of steps 0..i; a resumed run starts
\* at last_processed_chunk_idx + 1; so at no instant more than 9 completed
\* chunk-steps are missing from the checkpoint.
C30_PeriodicSceneCheckpoint == []C30_StatePart /\ C30_StepPart

\* ============================================ text, character by character
\* A str is the sequence of its characters.
UpperCaseLetters == {"C", "H", "I", "J", "N", "O", "T", "U", "X"}

LowerCaseLetters == {"h", "i", "j", "n", "o"}

Whitespace == {" ", "\n"}

\* str.upper(), one character
UpperChar(c) ==
    CASE c = "h" -> "H"
      [] c = "i" -> "I"
      [] c = "j" -> "J"
      [] c = "n" -> "N"
      [] c = "o" -> "O"
      [] OTHER -> c

upper(s) == [k \in 1..Len(s) |-> UpperChar(s[k])]

\* str.isupper(): some cased character, and no lowercase one
isupper(s) ==
    /\ \E k \in 1..Len(s) : s[k] \in UpperCaseLetters
    /\ \A k \in 1..Len(s) : s[k] \notin LowerCaseLetters

\* str.strip(chars)
StripChars(s, chars) ==
    LET keep == {k \in 1..Len(s) : s[k] \notin chars}
    IN  IF keep = {} THEN <<>>
        ELSE SubSeq(s, CHOOSE k \in keep : \A m \in keep : k <= m,
                       CHOOSE k \in keep : \A m \in keep : m <= k)

\* str.strip()
strip(s) == StripChars(s, Whitespace)

\* len(str.split())
WordCount(s) ==
    Cardinality({k \in 1..Len(s) : s[k] \notin Whitespace /\ (k = 1 \/ s[k - 1] \in Whitespace)})

startswith(s, c) == s # <<>> /\ s[1] = c

endswith(s, c) == s # <<>> /\ s[Len(s)] = c

\* sub in s
Contains(sub, s) == \E k \in 0..(Len(s) - Len(sub)) : SubSeq(s, k + 1, k + Len(sub)) = sub

\* sep.join(strs)
RECURSIVE join(_, _)
join(sep, strs) ==
    IF strs = <<>> THEN <<>>
    ELSE IF Len(strs) = 1 THEN strs[1]
    ELSE strs[1] \o sep \o join(sep, Tail(strs))

\* ============================================== scenes from Fountain lines
\* Slug lines, word by word; the pattern is
\* ^(INT\.|EXT\.|INT\./EXT\.|I/E\.) (.+?) - (.+?)$
SlugPrefixes == {"INT.", "EXT.", "INT./EXT.", "I/E."}

SlugMatch(slug_line) ==
    /\ Len(slug_line) >= 4
    /\ slug_line[1] \in SlugPrefixes
    /\ \E p \in 3..(Len(slug_line) - 1) : slug_line[p] = "-"

\* (.+?) is lazy: the location ends at the first " - " that leaves a time of day
SlugDash(slug_line) ==
    CHOOSE p \in 3..(Len(slug_line) - 1) :
        /\ slug_line[p] = "-"
        /\ \A q \in 3..(p - 1) : slug_line[q] # "-"

NoParenthetical == <<"None">>

SceneProgression == <<"Scene progression">>

\* A character cue: ALL CAPS, not a transition, fewer than five words.
IsCharacterCue(line) ==
    isupper(line) /\ line # <<>> /\ ~endswith(line, ":") /\ WordCount(line) < 5

\* The inner while loop: the index at which the dialogue of a cue ends.
RECURSIVE DialogueEnd(_, _)
DialogueEnd(scene_lines, k) ==
    IF k > Len(scene_lines) \/ scene_lines[k] = <<>> \/ isupper(scene_lines[k]) THEN k
    ELSE DialogueEnd(scene_lines, k + 1)

\* The outer while loop of _build_scene_from_lines, from line idx on.
RECURSIVE ScanLines(_, _, _, _, _)
ScanLines(scene_lines, idx, action_lines, dialogue_blocks, characters_mentioned) ==
    IF idx > Len(scene_lines)
    THEN [action_lines |-> action_lines, dialogue |-> dialogue_blocks,
          characters_mentioned |-> characters_mentioned]
    ELSE LET line == scene_lines[idx] IN
         IF IsCharacterCue(line)
         THEN LET character == strip(line)
                  hasParen == /\ idx + 1 <= Len(scene_lines)
                              /\ startswith(scene_lines[idx + 1], "(")
                              /\ endswith(scene_lines[idx + 1], ")")
                  parenthetical == IF hasParen THEN StripChars(scene_lines[idx + 1], {"(", ")"})
                                   ELSE NoParenthetical
                  first == IF hasParen THEN idx + 2 ELSE idx + 1
                  stop == DialogueEnd(scene_lines, first)
                  dialogue_lines == SubSeq(scene_lines, first, stop - 1)
              IN  IF dialogue_lines # <<>>
                  THEN ScanLines(scene_lines, stop, action_lines,
                                 Append(dialogue_blocks,
                                        [character |-> character,
                                         line |-> join(<<" ">>, dialogue_lines),
                                         parenthetical |-> parenthetical]),
                                 characters_mentioned \cup {character})
                  ELSE ScanLines(scene_lines, stop, action_lines, dialogue_blocks,
                                 characters_mentioned)
         ELSE ScanLines(scene_lines, idx + 1,
                        IF line # <<>> THEN Append(action_lines, line) ELSE action_lines,
                        dialogue_blocks, characters_mentioned)

\* Names of the Story Bible found in the action text.
NamesInAction(bible, action_text) ==
    {bible[n].name : n \in {m \in 1..Len(bible) :
        Contains(bible[m].name, action_text) \/ Contains(upper(bible[m].name), action_text)}}

BuildSceneFromLines(slug_line, scene_lines, number, bible) ==
    IF ~SlugMatch(slug_line) THEN NoScene
    ELSE LET scan == ScanLines(scene_lines, 1, <<>>, <<>>, {})
             action_text == join(<<" ">>, scan.action_lines)
         IN  Obj("ScreenplayScene",
                 [scene_number |-> number,
                  slug_line |-> slug_line,
                  interior_exterior |-> slug_line[1],
                  location_name |-> SubSeq(slug_line, 2, SlugDash(slug_line) - 1),
                  time_of_day |-> SubSeq(slug_line, SlugDash(slug_line) + 1, Len(slug_line)),
                  action_lines |-> join(<<"\n">>, scan.action_lines),
                  dialogue |-> scan.dialogue,
                  characters_present |-> scan.characters_mentioned
                                         \cup NamesInAction(bible, action_text),
                  scene_type |-> IF scan.dialogue # <<>> THEN "dialogue" ELSE "action",
                  emotional_beat |-> IF scan.action_lines # <<>> THEN scan.action_lines[1]
                                     ELSE SceneProgression])

\* ------------------------------------------------------------ process_scene
BreakdownKeys ==
    {"emotional_beat", "narrative_purpose", "composition", "characters_with_descriptions",
     "location_visual_description", "props_and_set_dressing", "ambient_sound",
     "dialogue_present", "music_mood", "special_requirements", "estimated_clip_count",
     "continuity_notes", "prompt_ready"}

\* The fields of VisualComposition; none has a default.
VisualCompositionFields ==
    {"key_moment_description", "foreground", "midground", "background", "lighting",
     "camera_movement", "colour_palette"}

\* breakdown_data.get(key, default) for every key but 'composition'
Fallback(key, scn) ==
    CASE key = "emotional_beat" -> scn.d.emotional_beat
      [] key = "narrative_purpose" -> <<>>
      [] key = "characters_with_descriptions" -> <<>>
      [] key = "location_visual_description" -> <<>>
      [] key = "props_and_set_dressing" -> <<>>
      [] key = "ambient_sound" -> <<>>
      [] key = "dialogue_present" -> Len(scn.d.dialogue) > 0
      [] key = "music_mood" -> <<>>
      [] key = "special_requirements" -> <<>>
      [] key = "estimated_clip_count" -> 1
      [] key = "continuity_notes" -> <<>>
      [] key = "prompt_ready" -> TRUE

DictGet(d, key, default) == IF key \in DOMAIN d THEN d[key] ELSE default

\* The SceneBreakdown(...) expression of process_scene; VisualComposition(**d)
\* raises a ValidationError when d lacks one of its fields.
BuildBreakdown(scn, data) ==
    LET comp == DictGet(data, "composition", <<>>) IN
    IF ~(VisualCompositionFields \subseteq DOMAIN comp)
    THEN [raised |-> "ValidationError", value |-> NoBreakdown]
    ELSE [raised |-> "",
          value |-> Obj("SceneBreakdown",
              [k \in BreakdownKeys \cup {"scene_number", "slug_line"} |->
                  CASE k = "scene_number" -> scn.d.scene_number
                    [] k = "slug_line" -> scn.d.slug_line
                    [] k = "composition" ->
                          Obj("VisualComposition", [f \in VisualCompositionFields |-> comp[f]])
                    [] OTHER -> DictGet(data, k, Fallback(k, scn))])]

\* ------------------------------------------------------------------ inputs
SceneLineChoices ==
    {<<"J", "O">>,                          \* JO
     <<"X">>,                               \* X
     <<"h", "i">>,                          \* hi
     <<>>,                                  \* an empty line
     <<"J", "o", " ", "i", "n">>,           \* Jo in
     <<"(", "h", "i", ")">>,                \* (hi)
     <<"C", "U", "T", ":">>}                \* CUT:

SceneLineLists == UNION {[1..n -> SceneLineChoices] : n \in 0..MaxLines}

SlugLines == {<<"INT.", "HALL", "-", "DAY">>, <<"HALL">>}

\* The characters of a Story Bible: Jo without alias, or JO alias X.
Bibles ==
    {<<[name |-> <<"J", "o">>, aliases |-> <<>>]>>,
     <<[name |-> <<"J", "O">>, aliases |-> << <<"X">> >>]>>}

AbsentSets == {a \in SUBSET BreakdownKeys : Cardinality(a) <= MaxAbsent} \cup {BreakdownKeys}

ResponseVariants == [described : BOOLEAN, located : BOOLEAN, prompt_ready : BOOLEAN]

SomeText == <<"h", "i">>

\* A JSON object the model can answer with: every key of the prompt's
\* schema except those of absent.
BreakdownObject(scn, variant, absent) ==
    [k \in BreakdownKeys \ absent |->
        CASE k = "composition" -> [f \in VisualCompositionFields |-> SomeText]
          [] k = "characters_with_descriptions" ->
                IF variant.described THEN [n \in scn.d.characters_present |-> SomeText]
                ELSE <<>>
          [] k = "location_visual_description" -> IF variant.located THEN SomeText ELSE <<>>
          [] k = "prompt_ready" -> variant.prompt_ready
          [] k = "dialogue_present" -> TRUE
          [] k = "estimated_clip_count" -> 2
          [] k \in {"props_and_set_dressing", "special_requirements"} -> <<SomeText>>
          [] OTHER -> SomeText]

\* ----------------------------------------------------------------- actions
\* _build_scene_from_lines(slug_line, scene_lines, 1, _, story_bible)
BuildScene ==
    /\ spc = "idle"
    /\ spc' = "built"
    /\ \E slug_line \in SlugLines, scene_lines \in SceneLineLists, bible \in Bibles :
        /\ story_bible' = bible
        /\ cur_scene' = BuildSceneFromLines(slug_line, scene_lines, 1, bible)
    /\ UNCHANGED <<pvars, callVars, parseVars, compVars, coerceVars, breakdown_data, breakdown, raised>>

\* process_scene(scene, story_bible), the model answering with a JSON object
ProcessSceneObject ==
    /\ spc = "built"
    /\ cur_scene.cls # "None"
    /\ \E variant \in ResponseVariants, absent \in AbsentSets :
        LET data == BreakdownObject(cur_scene, variant, absent)
            res == BuildBreakdown(cur_scene, data)
        IN  /\ breakdown_data' = [kind |-> "object", d |-> data]
            /\ breakdown' = res.value
            /\ raised' = res.raised
    /\ spc' = "processed"
    /\ UNCHANGED <<pvars, callVars, parseVars, compVars, coerceVars, story_bible, cur_scene>>

\* process_scene(scene, story_bible), the model answering with a JSON array
\* (a list has no get) or _call_llm giving up
ProcessSceneRaises ==
    /\ spc = "built"
    /\ cur_scene.cls # "None"
    /\ \E e \in {"AttributeError", "JSONDecodeError"} :
        /\ breakdown_data' = [kind |-> IF e = "AttributeError" THEN "array" ELSE "none",
                              d |-> <<>>]
        /\ raised' = e
    /\ spc' = "processed"
    /\ UNCHANGED <<pvars, callVars, parseVars, compVars, coerceVars, story_bible, cur_scene, breakdown>>

SceneEnds ==
    /\ spc # "idle"
    /\ spc' = "idle"
    /\ story_bible' = <<>>
    /\ cur_scene' = NoScene
    /\ breakdown_data' = NoData
    /\ breakdown' = NoBreakdown
    /\ raised' = ""
    /\ UNCHANGED <<pvars, callVars, parseVars, compVars, coerceVars>>

NextScene ==
    \/ BuildScene
    \/ ProcessSceneObject
    \/ ProcessSceneRaises
    \/ SceneEnds

InitScene == Init /\ nChunks = 1

SpecScene == InitScene /\ [][NextScene]_vars

\* name equals the name or an alias of a character of the Story Bible.
Resolves(name, bible) ==
    \E n \in 1..Len(bible) :
        \/ bible[n].name = name
        \/ \E a \in 1..Len(bible[n].aliases) : bible[n].aliases[a] = name

\* C22: every name in the characters_present of a scene the converter built
\* is the name or an alias of a character of the Story Bible used.
C22_CharactersResolve ==
    (spc # "idle" /\ cur_scene.cls # "None") =>
        \A name \in cur_scene.d.characters_present : Resolves(name, story_bible)

\* C23: a SceneBreakdown returned with prompt_ready = true describes every
\* character of the scene's characters_present and its location, none of the
\* descriptions empty.
C23_PromptReadyIsComplete ==
    (spc = "processed" /\ raised = "" /\ breakdown.d.prompt_ready) =>
        /\ \A name \in cur_scene.d.characters_present :
              /\ name \in DOMAIN breakdown.d.characters_with_descriptions
              /\ breakdown.d.characters_with_descriptions[name] # <<>>
        /\ breakdown.d.location_visual_description # <<>>

\* C24: whatever keys a JSON-object response lacks, process_scene returns a
\* SceneBreakdown without raising, every absent key replaced by its fallback
\* ('composition' included), dialogue_present by whether the scene has dialogue.
C24_AbsentKeysFallBack ==
    (spc = "processed" /\ breakdown_data.kind = "object") =>
        /\ raised = ""
        /\ breakdown.cls = "SceneBreakdown"
        /\ \A k \in (BreakdownKeys \ {"composition"}) \ DOMAIN breakdown_data.d :
              breakdown.d[k] = Fallback(k, cur_scene)

\* ===================================================== JSON coercion cascade
\* A response text is the sequence of its lexical units: the code fence, the
\* word json, brackets, the quote, the digit 1, comma, colon, blank, newline,
\* and words that hold none of these.
\* the three backquotes that open or close a code block
Fence == "FENCE"

Quote == "\""

FencedJson == <<Fence, "json">>

\* str.find(c, p) and str.rfind(c), 0 standing for -1
RECURSIVE find(_, _, _)
find(s, c, p) ==
    IF p > Len(s) THEN 0
    ELSE IF s[p] = c THEN p
    ELSE find(s, c, p + 1)

RECURSIVE rfindFrom(_, _, _)
rfindFrom(s, c, p) ==
    IF p < 1 THEN 0
    ELSE IF s[p] = c THEN p
    ELSE rfindFrom(s, c, p - 1)

rfind(s, c) == rfindFrom(s, c, Len(s))

\* index of the first occurrence of sep in s, 0 if there is none
FindSeq(s, sep) ==
    IF Contains(sep, s)
    THEN CHOOSE k \in 1..(Len(s) - Len(sep) + 1) :
            /\ SubSeq(s, k, k + Len(sep) - 1) = sep
            /\ \A m \in 1..(k - 1) : SubSeq(s, m, m + Len(sep) - 1) # sep
    ELSE 0

\* str.split(sep)
RECURSIVE split(_, _)
split(s, sep) ==
    LET k == FindSeq(s, sep)
    IN  IF k = 0 THEN <<s>>
        ELSE <<SubSeq(s, 1, k - 1)>> \o split(SubSeq(s, k + Len(sep), Len(s)), sep)

\* ---------------------------------------------------------------- json.loads
\* JSON values: numbers (s holds the digits), strings (s holds the content),
\* arrays (kids holds the elements) and objects (keys[n] maps to kids[n]).
JNum(digits) == [t |-> "num", s |-> digits, kids |-> <<>>, keys |-> <<>>]

JStr(content) == [t |-> "str", s |-> content, kids |-> <<>>, keys |-> <<>>]

JArr(elements) == [t |-> "arr", s |-> <<>>, kids |-> elements, keys |-> <<>>]

JObj(keys, values) == [t |-> "obj", s |-> <<>>, kids |-> values, keys |-> keys]

\* d[key] = val on a dict: a key already there keeps its place
SetItem(d, key, val) ==
    IF \E n \in 1..Len(d.keys) : d.keys[n] = key
    THEN JObj(d.keys, [n \in 1..Len(d.keys) |-> IF d.keys[n] = key THEN val ELSE d.kids[n]])
    ELSE JObj(Append(d.keys, key), Append(d.kids, val))

\* == on decoded values: lists by position, dicts by key
RECURSIVE DeepEqual(_, _)
DeepEqual(a, b) ==
    /\ a.t = b.t
    /\ a.s = b.s
    /\ Len(a.kids) = Len(b.kids)
    /\ IF a.t = "obj"
       THEN /\ {a.keys[n] : n \in 1..Len(a.keys)} = {b.keys[n] : n \in 1..Len(b.keys)}
            /\ \A n \in 1..Len(a.keys), m \in 1..Len(b.keys) :
                  a.keys[n] = b.keys[m] => DeepEqual(a.kids[n], b.kids[m])
       ELSE \A n \in 1..Len(a.kids) : DeepEqual(a.kids[n], b.kids[n])

ParseFail == [ok |-> FALSE, val |-> NoJson, next |-> 0]

Parsed(val, next) == [ok |-> TRUE, val |-> val, next |-> next]

RECURSIVE SkipWs(_, _)
SkipWs(s, p) == IF p <= Len(s) /\ s[p] \in Whitespace THEN SkipWs(s, p + 1) ELSE p

RECURSIVE DigitsEnd(_, _)
DigitsEnd(s, p) == IF p <= Len(s) /\ s[p] = "1" THEN DigitsEnd(s, p + 1) ELSE p

\* A string literal from the quote at p to the next quote; a raw newline in
\* it is a control character, which the decoder refuses.
ParseString(s, p) ==
    LET e == find(s, Quote, p + 1)
    IN  IF e = 0 THEN ParseFail
        ELSE IF \E k \in (p + 1)..(e - 1) : s[k] = "\n" THEN ParseFail
        ELSE Parsed(JStr(SubSeq(s, p + 1, e - 1)), e + 1)

RECURSIVE ParseValue(_, _), ParseElements(_, _, _), ParseMembers(_, _, _)
ParseValue(s, p0) ==
    LET p == SkipWs(s, p0)
    IN  IF p > Len(s) THEN ParseFail
        ELSE IF s[p] = "1" THEN Parsed(JNum(SubSeq(s, p, DigitsEnd(s, p) - 1)), DigitsEnd(s, p))
        ELSE IF s[p] = Quote THEN ParseString(s, p)
        ELSE IF s[p] = "["
             THEN LET q == SkipWs(s, p + 1)
                  IN  IF q <= Len(s) /\ s[q] = "]" THEN Parsed(JArr(<<>>), q + 1)
                      ELSE ParseElements(s, p + 1, <<>>)
        ELSE IF s[p] = "{"
             THEN LET q == SkipWs(s, p + 1)
                  IN  IF q <= Len(s) /\ s[q] = "}" THEN Parsed(JObj(<<>>, <<>>), q + 1)
                      ELSE ParseMembers(s, p + 1, JObj(<<>>, <<>>))
        ELSE ParseFail

ParseElements(s, p, acc) ==
    LET r == ParseValue(s, p)
    IN  IF ~r.ok THEN ParseFail
        ELSE LET q == SkipWs(s, r.next)
             IN  IF q > Len(s) THEN ParseFail
                 ELSE IF s[q] = "," THEN ParseElements(s, q + 1, Append(acc, r.val))
                 ELSE IF s[q] = "]" THEN Parsed(JArr(Append(acc, r.val)), q + 1)
                 ELSE ParseFail

ParseMembers(s, p, acc) ==
    LET kq == SkipWs(s, p)
    IN  IF kq > Len(s) \/ s[kq] # Quote THEN ParseFail
        ELSE LET key == ParseString(s, kq)
             IN  IF ~key.ok THEN ParseFail
                 ELSE LET c == SkipWs(s, key.next)
                      IN  IF c > Len(s) \/ s[c] # ":" THEN ParseFail
                          ELSE LET r == ParseValue(s, c + 1)
                               IN  IF ~r.ok THEN ParseFail
                                   ELSE LET q == SkipWs(s, r.next)
                                            members == SetItem(acc, key.val.s, r.val)
                                        IN  IF q > Len(s) THEN ParseFail
                                            ELSE IF s[q] = "," THEN ParseMembers(s, q + 1, members)
                                            ELSE IF s[q] = "}" THEN Parsed(members, q + 1)
                                            ELSE ParseFail

\* json.loads(s): one value, nothing but whitespace around it
loads(s) ==
    LET r == ParseValue(s, 1)
    IN  IF r.ok /\ SkipWs(s, r.next) > Len(s) THEN r ELSE ParseFail

\* json.dumps(v), with its separators ", " and ": "
RECURSIVE dumps(_)
dumps(v) ==
    CASE v.t = "num" -> v.s
      [] v.t = "str" -> <<Quote>> \o v.s \o <<Quote>>
      [] v.t = "arr" ->
            <<"[">> \o join(<<",", " ">>, [n \in 1..Len(v.kids) |-> dumps(v.kids[n])]) \o <<"]">>
      [] v.t = "obj" ->
            <<"{">> \o join(<<",", " ">>,
                           [n \in 1..Len(v.keys) |->
                               <<Quote>> \o v.keys[n] \o <<Quote, ":", " ">> \o dumps(v.kids[n])])
                  \o <<"}">>

\* a fenced code block around s, with or without the json label
Fenced(s, label) == <<Fence>> \o label \o <<"\n">> \o s \o <<"\n", Fence>>

\* --------------------------------------------------------- the three cascades
Returns(text) == [ok |-> TRUE, text |-> text]

\* StoryBibleExtractor: the text of the code block, '' standing for None too
ExtractorExtracted(text) ==
    IF Contains(FencedJson, text)
    THEN strip(split(split(text, FencedJson)[2], <<Fence>>)[1])
    ELSE IF Contains(<<Fence>>, text) /\ Len(split(text, <<Fence>>)) >= 3
    THEN strip(split(text, <<Fence>>)[2])
    ELSE <<>>

ExtractorScanStart(text) ==
    LET start_arr == find(text, "[", 1)
        start_obj == find(text, "{", 1)
    IN  IF start_arr = 0 THEN start_obj
        ELSE IF start_obj = 0 THEN start_arr
        ELSE Min(start_arr, start_obj)

\* find in place of rfind
ExtractorScanEndFirst(text, end_char) == find(text, end_char, 1)

ExtractorScanEnd(text, end_char) == rfind(text, end_char)

ExtractorScan(text) ==
    LET start == ExtractorScanStart(text)
    IN  IF start = 0 THEN Rejected
        ELSE LET end_char == IF text[start] = "[" THEN "]" ELSE "}"
                 end == ExtractorScanEnd(text, end_char)
                 extracted == SubSeq(text, start, end)
             IN  IF end # 0 /\ loads(extracted).ok THEN Returns(extracted) ELSE Rejected

ExtractorCoerce(text) ==
    IF loads(text).ok THEN Returns(text)
    ELSE LET extracted == ExtractorExtracted(text)
         IN  IF extracted # <<>> /\ loads(extracted).ok THEN Returns(extracted)
             ELSE ExtractorScan(text)

\* ScreenplayConverter and SceneBreakdownExtractor: a code block that does
\* not parse raises at once; the scan looks for the brackets of opens, in
\* that order of preference
BracketScan(text, opens) ==
    LET found == SelectSeq(opens, LAMBDA c : find(text, c, 1) # 0)
        start == IF found = <<>> THEN 0 ELSE find(text, found[1], 1)
    IN  IF start = 0 THEN Rejected
        ELSE LET end_char == IF text[start] = "{" THEN "}" ELSE "]"
                 end == rfind(text, end_char)
                 extracted == SubSeq(text, start, end)
             IN  IF end # 0 /\ loads(extracted).ok THEN Returns(extracted) ELSE Rejected

FencedOrScan(text, opens) ==
    IF loads(text).ok THEN Returns(text)
    ELSE IF Contains(FencedJson, text)
    THEN LET extracted == strip(split(split(text, FencedJson)[2], <<Fence>>)[1])
         IN  IF loads(extracted).ok THEN Returns(extracted) ELSE Rejected
    ELSE IF Contains(<<Fence>>, text) /\ Len(split(text, <<Fence>>)) >= 3
    THEN LET extracted == strip(split(text, <<Fence>>)[2])
         IN  IF loads(extracted).ok THEN Returns(extracted) ELSE Rejected
    ELSE BracketScan(text, opens)

ConverterCoerce(text) == FencedOrScan(text, <<"{", "[">>)

BreakdownCoerce(text) == FencedOrScan(text, <<"{">>)

Coerce(text) ==
    [c \in {"extractor", "converter", "breakdown"} |->
        CASE c = "extractor" -> ExtractorCoerce(text)
          [] c = "converter" -> ConverterCoerce(text)
          [] c = "breakdown" -> BreakdownCoerce(text)]

\* ------------------------------------------------------------------- inputs
TextTokens == {Fence, "json", "[", "]", "{", "}", Quote, "1", "\n"}

Texts == UNION {[1..n -> TextTokens] : n \in 0..MaxTextLen}

ProseWrapped ==
    <<"Here is the result", ":", "\n",
      "[", "{", Quote, "name", Quote, ":", " ", Quote, "X", Quote, "}", "]",
      "\n", "Hope that helps!">>

StringTokens == {Fence, "[", "]", "X"}

StringContents == UNION {[1..n -> StringTokens] : n \in 0..MaxStringLen}

Scalars == {JNum(<<"1">>)} \cup {JStr(c) : c \in StringContents}

Arrays1 ==
    {JArr(<<>>)} \cup {JArr(<<a>>) : a \in Scalars} \cup {JArr(<<JNum(<<"1">>), a>>) : a \in Scalars}

JsonValues ==
    Scalars \cup Arrays1 \cup {JObj(<<>>, <<>>)}
        \cup {JObj(<< <<"name">> >>, <<a>>) : a \in Scalars \cup Arrays1}

\* ------------------------------------------------------------------ actions
\* the model answers with an arbitrary text
Respond ==
    /\ cpc = "idle"
    /\ cpc' = "coerced"
    /\ \E text \in Texts \cup {ProseWrapped} :
        /\ response_text' = text
        /\ coerced' = Coerce(text)
    /\ json_value' = NoJson
    /\ UNCHANGED <<pvars, callVars, parseVars, compVars, sceneVars>>

\* the model answers with the serialization of v in a fenced code block
RespondFenced ==
    /\ cpc = "idle"
    /\ cpc' = "coerced"
    /\ \E v \in JsonValues, label \in {<<"json">>, <<>>} :
        /\ response_text' = Fenced(dumps(v), label)
        /\ json_value' = v
        /\ coerced' = Coerce(Fenced(dumps(v), label))
    /\ UNCHANGED <<pvars, callVars, parseVars, compVars, sceneVars>>

CoerceEnds ==
    /\ cpc = "coerced"
    /\ cpc' = "idle"
    /\ response_text' = <<>>
    /\ json_value' = NoJson
    /\ coerced' = NotCoerced
    /\ UNCHANGED <<pvars, callVars, parseVars, compVars, sceneVars>>

NextCoerce ==
    \/ Respond
    \/ RespondFenced
    \/ CoerceEnds

InitCoerce == Init /\ nChunks = 1

SpecCoerce == InitCoerce /\ [][NextCoerce]_vars

\* C25: the serialization of any JSON value, wrapped in a fenced code block,
\* is coerced to a text that parses to that value again.
C25_FencedRoundTrip ==
    (cpc = "coerced" /\ json_value.t # "none") =>
        /\ coerced["extractor"].ok
        /\ loads(coerced["extractor"].text).ok
        /\ DeepEqual(loads(coerced["extractor"].text).val, json_value)

\* C26: when neither the whole text nor its code block parses, the coercer
\* returns the substring from the first '[' or '{', whichever is earlier, to
\* the last ']' or '}' of the same kind if that substring parses, and fails
\* otherwise.
C26_BracketScan ==
    (cpc = "coerced" /\ ~loads(response_text).ok
        /\ (ExtractorExtracted(response_text) = <<>>
            \/ ~loads(ExtractorExtracted(response_text)).ok)) =>
        LET opens == {k \in 1..Len(response_text) : response_text[k] \in {"[", "{"}}
            first == CHOOSE k \in opens : \A m \in opens : k <= m
            close == IF response_text[first] = "[" THEN "]" ELSE "}"
            closes == {k \in 1..Len(response_text) : response_text[k] = close}
            last == CHOOSE k \in closes : \A m \in closes : m <= k
            sub == SubSeq(response_text, first, last)
        IN  IF opens # {} /\ closes # {} /\ loads(sub).ok
            THEN coerced["extractor"] = Returns(sub)
            ELSE ~coerced["extractor"].ok

\* C26 witness: the prose-wrapped array is recovered from between the prose.
C26_Witness ==
    /\ cpc = "coerced"
    /\ response_text = ProseWrapped
    /\ coerced["extractor"] = Returns(SubSeq(ProseWrapped, 4, 15))
    /\ DeepEqual(loads(coerced["extractor"].text).val,
                 JArr(<<JObj(<< <<"name">> >>, <<JStr(<<"X">>)>>)>>))

\* C27: the three callers' cascades agree on every response text: all return
\* the same JSON text or all reject.
C27_CascadesAgree ==
    cpc = "coerced" =>
        /\ coerced["converter"] = coerced["extractor"]
        /\ coerced["breakdown"] = coerced["extractor"]

\* ===================================================== failures of convert
\* C31: a failed act-structure call or chunk-step call ends convert with an
\* exception and without a Screenplay; the loop index only advances over a
\* chunk-step whose call succeeded and whose scenes were appended, and no
\* scene exists in a run that has no act structure.
C31_FailureAborts ==
    [][/\ (ConvertActLLMError \/ ConvertChunkLLMError) =>
            /\ run' = "idle"
            /\ ended'.how = "raised"
            /\ cret' = NoScreenplay
            /\ screenplay' = screenplay
            /\ cfile' = cfile
       /\ (run = "convert" /\ pc = "loop" /\ run' = "convert" /\ i' # i) =>
            /\ i' = i + 1
            /\ "scenes" \in calls'
            /\ scenes' = scenes \o ConvertChunkBatchToScenes(i, PreviousScene(scenes),
                                       GetActPosition(i, act_structure), scene_number)
       /\ (run' = "convert" /\ scenes' # <<>>) => act_structure' # NoAct
      ]_vars

\* C31 witness: a convert that had saved a scene checkpoint failed in a later
\* chunk-step; no screenplay has been exported.
C31_Witness ==
    /\ run = "idle"
    /\ ended = [run |-> "convert", pc |-> "loop", how |-> "raised"]
    /\ screenplay = NoScreenplay
    /\ cfile.kind = "ok"
    /\ "scenes" \in DOMAIN cfile.vals

\* C37: while an extract-bible command runs and the Story Bible is not yet in
\* the database, every sub-stage result the run holds is in the checkpoint
\* file (no checkpoint I/O error having occurred).
C37_CheckpointUntilStored ==
    (run = "extract" /\ faults = 0 /\ storedBible = NoBible) =>
        \A k \in DOMAIN xres : xfile.kind = "ok" /\ k \in DOMAIN xfile.vals

\* C39: before the final renumbering the accumulated scene list is numbered
\* 1, 2, 3, ... already, at every chunk-step and in every saved scene
\* checkpoint, also after a resume.
C39_NumberedBeforeRenumbering ==
    /\ (run = "convert" /\ pc = "loop") =>
          /\ \A k \in 1..Len(scenes) : scenes[k].d.scene_number = k
          /\ scene_number = Len(scenes) + 1
    /\ (cfile.kind = "ok" /\ "scenes" \in DOMAIN cfile.vals) =>
          \A k \in 1..Len(cfile.vals["scenes"]) : cfile.vals["scenes"][k].scene_number = k

\* C39 witness: a resumed convert has appended scenes to the hydrated list and
\* saved a later scene checkpoint.
C39_Witness ==
    /\ run = "convert"
    /\ pc = "loop"
    /\ HasKey(startData, "scenes")
    /\ Len(scenes) > Len(startData.vals["scenes"])
    /\ cfile.kind = "ok"
    /\ "scenes" \in DOMAIN cfile.vals
    /\ cfile.vals["last_processed_chunk_idx"] > startData.vals["last_processed_chunk_idx"]

\* ============================================ one attempt counter for all
\* C38: whatever the mix and order of errors, one _call_llm invokes the
\* backend at most 10 times, and the attempt index counts the errors of both
\* classes: an error that is neither overload nor rate-limit is retried when
\* it occurs at attempt index 0, 1 or 2 and ends the call at index 3 or later.
C38_Counted ==
    /\ invocations <= 10
    /\ llmOutcome = "running" => (attempt = Len(errors) /\ invocations = attempt)

C38_OtherErrorStep ==
    [][Len(errors') = Len(errors) + 1 =>
          LET e == errors'[Len(errors')]
          IN  ~(is_overload(e) \/ is_rate_limit(e)) =>
                 IF Len(errors) \in {0, 1, 2}
                 THEN llmOutcome' = "running" /\ attempt' = Len(errors')
                 ELSE llmOutcome' \in {"ExtractionError", "reraised"}
      ]_vars

C38_SharedAttemptCounter == []C38_Counted /\ C38_OtherErrorStep

\* C38 witness: three overload errors, then the first other error of the call
\* at attempt index 3, which ended the call after four invocations.
C38_Witness ==
    /\ llmOutcome \in {"ExtractionError", "reraised"}
    /\ errors = <<"overloaded_error", "rate_limit_error", "overloaded_error",
                  "connection_error">>
    /\ invocations = 4

\* ============================================================ act position
ActLabels == <<"Act 1", "Act 2A", "Act 2B", "Act 3">>

ActOrder(label) == CHOOSE n \in 1..4 : ActLabels[n] = label

\* The range of the ActStructure that belongs to a label.
ActRangeOf(label, act) ==
    CASE label = "Act 1" -> act.d.act_one_chunk_range
      [] label = "Act 2A" -> act.d.act_two_a_chunk_range
      [] label = "Act 2B" -> act.d.act_two_b_chunk_range
      [] label = "Act 3" -> act.d.act_three_chunk_range

\* C32: for every chunk index of the novel _get_act_position returns the
\* label of an act whose range in the ActStructure contains the index, and
\* the labels never step back from a later act to an earlier one as the
\* index grows.
C32_ActPositionInRange ==
    (fn = ActFn /\ fpc = "returned") =>
        LET act == fresult[1]
            label(idx) == GetActPosition(idx, act)
        IN  /\ \A idx \in 0..(chunk_count - 1) :
                  /\ ActRangeOf(label(idx), act)[1] <= idx
                  /\ idx <= ActRangeOf(label(idx), act)[2]
            /\ \A idx \in 0..(chunk_count - 1), later \in 0..(chunk_count - 1) :
                  idx <= later => ActOrder(label(idx)) <= ActOrder(label(later))

\* ===================================================== Fountain to scenes
\* fountain_text.strip().split(newline): blank lines at both ends are gone,
\* and the empty text splits into one empty line.
RECURSIVE StripLines(_)
StripLines(lines) ==
    IF lines = <<>> THEN << <<>> >>
    ELSE IF strip(Head(lines)) = <<>> THEN StripLines(Tail(lines))
    ELSE IF strip(lines[Len(lines)]) = <<>> THEN StripLines(SubSeq(lines, 1, Len(lines) - 1))
    ELSE lines

\* The locals of _parse_fountain_to_scenes; the empty slug stands for None.
ParseStart(number) ==
    [scenes |-> <<>>, current_scene_number |-> number, current_slug |-> <<>>,
     current_scene_lines |-> <<>>]

\* Save the scene collected so far, if there is one.
SaveScene(st, bible) ==
    IF st.current_slug # <<>> /\ st.current_scene_lines # <<>>
    THEN LET built == BuildSceneFromLines(st.current_slug, st.current_scene_lines,
                                          st.current_scene_number, bible)
         IN  IF built.cls # "None"
             THEN [st EXCEPT !.scenes = Append(@, built),
                             !.current_scene_number = @ + 1]
             ELSE st
    ELSE st

\* One pass of the for loop over the lines.
ParseLine(st, raw, bible) ==
    LET line == strip(raw)
    IN  IF SlugMatch(line)
        THEN [SaveScene(st, bible) EXCEPT !.current_slug = line,
                                          !.current_scene_lines = <<>>]
        ELSE IF st.current_slug # <<>>
             THEN [st EXCEPT !.current_scene_lines = Append(@, line)]
             ELSE st

RECURSIVE ParseLines(_, _, _)
ParseLines(st, lines, bible) ==
    IF lines = <<>> THEN st
    ELSE ParseLines(ParseLine(st, Head(lines), bible), Tail(lines), bible)

\* _parse_fountain_to_scenes(fountain_text, starting_scene_number, ids, story_bible)
ParseFountainToScenes(text, number, bible) ==
    SaveScene(ParseLines(ParseStart(number), StripLines(text), bible), bible).scenes

\* ------------------------------------------------------------------ inputs
FountainLineChoices ==
    {<<"INT.", "HALL", "-", "DAY">>,
     <<"EXT.", "YARD", "-", "NIGHT">>,
     <<"h", "i">>,
     <<>>}

FountainTexts == UNION {[1..n -> FountainLineChoices] : n \in 0..MaxFountainLines}

DefaultBible == <<[name |-> <<"J", "o">>, aliases |-> <<>>]>>

\* ----------------------------------------------------------------- actions
ParseFountain ==
    /\ fopc = "idle"
    /\ fopc' = "parsed"
    /\ \E text \in FountainTexts, number \in 1..2 :
        /\ fountain_text' = text
        /\ starting_scene_number' = number
        /\ parsed_scenes' = ParseFountainToScenes(text, number, DefaultBible)
    /\ UNCHANGED <<pvars, callVars, parseVars, sceneVars, coerceVars, sampleVars, limiterVars, chunkerVars, queueVars>>

FountainEnds ==
    /\ fopc # "idle"
    /\ fopc' = "idle"
    /\ fountain_text' = <<>>
    /\ starting_scene_number' = 1
    /\ parsed_scenes' = <<>>
    /\ UNCHANGED <<pvars, callVars, parseVars, sceneVars, coerceVars, sampleVars, limiterVars, chunkerVars, queueVars>>

NextFountain ==
    \/ ParseFountain
    \/ FountainEnds

InitFountain == Init /\ nChunks = 1

SpecFountain == InitFountain /\ [][NextFountain]_vars

\* The scene-heading lines of the response, in order of appearance.
IsHeading(line) == SlugMatch(strip(line))

Headings(text) == SelectSeq(text, IsHeading)

\* C33: the scenes _parse_fountain_to_scenes returns are, one for one and in
\* order, the scene-heading lines of the response, numbered consecutively
\* from starting_scene_number; a response without a heading gives no scene.
C33_OneScenePerHeading ==
    fopc = "parsed" =>
        /\ Len(parsed_scenes) = Len(Headings(fountain_text))
        /\ \A k \in 1..Len(parsed_scenes) :
              /\ k <= Len(Headings(fountain_text))
              /\ parsed_scenes[k].d.slug_line = Headings(fountain_text)[k]
              /\ parsed_scenes[k].d.scene_number = starting_scene_number + k - 1

\* ============================================================ sample chunks
\* _get_sample_chunks(chunks, n); chunks[k + 1] here is chunks[k] there.
GetSampleChunks(chunks, n) ==
    IF Len(chunks) <= n THEN chunks
    ELSE LET step == Len(chunks) \div n
         IN  [k \in 1..n |-> chunks[(k - 1) * step + 1]]

\* The chunks of a novel of the given length, as their ids 0, 1, 2, ...
ChunkIds(length) == [k \in 1..length |-> k - 1]

SampleChunks ==
    /\ smpc = "idle"
    /\ smpc' = "sampled"
    /\ \E length \in 0..MaxSampleLen, n \in 3..SAMPLE_N :
        /\ all_chunks' = ChunkIds(length)
        /\ sample_n' = n
        /\ sample_chunks' = GetSampleChunks(ChunkIds(length), n)
    /\ UNCHANGED <<pvars, callVars, parseVars, sceneVars, coerceVars, fountainVars, limiterVars, chunkerVars, queueVars>>

SampleEnds ==
    /\ smpc # "idle"
    /\ smpc' = "idle"
    /\ all_chunks' = <<>>
    /\ sample_n' = 10
    /\ sample_chunks' = <<>>
    /\ UNCHANGED <<pvars, callVars, parseVars, sceneVars, coerceVars, fountainVars, limiterVars, chunkerVars, queueVars>>

NextSample ==
    \/ SampleChunks
    \/ SampleEnds

InitSample == Init /\ nChunks = 1

SpecSample == InitSample /\ [][NextSample]_vars

\* The third of a sequence of the given length that position idx (from 0)
\* lies in: 1, 2 or 3.
ThirdOf(idx, length) ==
    IF 3 * idx < length THEN 1 ELSE IF 3 * idx < 2 * length THEN 2 ELSE 3

\* C34: _get_sample_chunks returns all chunks when there are at most n;
\* otherwise exactly n distinct chunks, in their original order and at an
\* even stride, among them a chunk of the first, of the middle and of the
\* last third of the sequence.
C34_SampleSpansNovel ==
    smpc = "sampled" =>
        IF Len(all_chunks) <= sample_n THEN sample_chunks = all_chunks
        ELSE /\ Len(sample_chunks) = sample_n
             /\ \A k \in 1..(sample_n - 1) : sample_chunks[k] < sample_chunks[k + 1]
             /\ \E stride \in 1..Len(all_chunks) :
                   \A k \in 1..(sample_n - 1) : sample_chunks[k + 1] - sample_chunks[k] = stride
             /\ \A third \in 1..3 :
                   \E k \in 1..sample_n : ThirdOf(sample_chunks[k], Len(all_chunks)) = third

\* ============================================================= rate limiter
\* RateLimiter.limits[provider]["rpm"]
RPM == [p \in Providers |-> IF p = "seedance" THEN 30 ELSE 10]

\* interval = 60.0 / rpm, in seconds
Interval(p) == 60 \div RPM[p]

\* acquire returns: the request of provider p is let through now.
Admit(p) ==
    [admitted EXCEPT ![p] = IF @ = <<>> THEN <<clock>> ELSE <<@[Len(@)], clock>>]

\* acquire up to its await, or to its end when it does not sleep: nothing
\* else runs on the event loop in between.
Acquire(c) ==
    /\ apc[c] = "idle"
    /\ \E p \in Providers :
        LET last_request == limits[p]
            now == clock
            elapsed == now - last_request
        IN  IF elapsed < Interval(p)
            THEN /\ apc' = [apc EXCEPT ![c] = "sleeping"]
                 /\ api_provider' = [api_provider EXCEPT ![c] = p]
                 /\ wake_at' = [wake_at EXCEPT ![c] = now + (Interval(p) - elapsed)]
                 /\ UNCHANGED <<limits, admitted>>
            ELSE /\ limits' = [limits EXCEPT ![p] = clock]
                 /\ admitted' = Admit(p)
                 /\ UNCHANGED <<apc, api_provider, wake_at>>
    /\ UNCHANGED <<pvars, callVars, parseVars, sceneVars, coerceVars, fountainVars,
                   sampleVars, chunkerVars, queueVars, clock>>

\* asyncio.sleep(wait_time) is over and acquire runs to its end.
AcquireWakes(c) ==
    /\ apc[c] = "sleeping"
    /\ clock >= wake_at[c]
    /\ limits' = [limits EXCEPT ![api_provider[c]] = clock]
    /\ admitted' = Admit(api_provider[c])
    /\ apc' = [apc EXCEPT ![c] = "idle"]
    /\ api_provider' = [api_provider EXCEPT ![c] = "seedance"]
    /\ wake_at' = [wake_at EXCEPT ![c] = 0]
    /\ UNCHANGED <<pvars, callVars, parseVars, sceneVars, coerceVars, fountainVars,
                   sampleVars, chunkerVars, queueVars, clock>>

\* A second passes.
Tick ==
    /\ clock < MaxClock
    /\ clock' = clock + 1
    /\ UNCHANGED <<pvars, callVars, parseVars, sceneVars, coerceVars, fountainVars,
                   sampleVars, chunkerVars, queueVars, limits, apc, api_provider, wake_at, admitted>>

NextLimiter ==
    \/ \E c \in Coroutines : Acquire(c)
    \/ \E c \in Coroutines : AcquireWakes(c)
    \/ Tick

InitLimiter == Init /\ nChunks = 1

SpecLimiter == InitLimiter /\ [][NextLimiter]_vars

\* C35: two requests acquire admitted for the same provider are at least
\* 60/rpm seconds apart, whichever coroutines they came from.
C35_RequestsSpaced ==
    \A p \in Providers :
        Len(admitted[p]) = 2 => admitted[p][2] - admitted[p][1] >= Interval(p)

\* ================================================================== chunker
\* Text here is a sequence over the word "w" and the newline; a paragraph
\* break is two newlines.
ParagraphBreak == <<"\n", "\n">>

\* _count_tokens(text): cl100k_base gives a word one token and a run of
\* newlines one token.
RECURSIVE CountTokens(_)
CountTokens(text) ==
    IF text = <<>> THEN 0
    ELSE (IF Head(text) # "\n" THEN 1
          ELSE IF Len(text) >= 2 /\ text[2] = "\n" THEN 0
          ELSE 1) + CountTokens(Tail(text))

\* _split_by_chapter(text, boundaries)
SplitByChapter(text, boundaries) ==
    IF Len(boundaries) <= 1 THEN <<text>>
    ELSE LET num_chapters == Len(boundaries)
             chars_per_chapter == Len(text) \div num_chapters
         IN  [n \in 1..num_chapters |->
                 SubSeq(text, (n - 1) * chars_per_chapter + 1,
                        IF n < num_chapters THEN n * chars_per_chapter ELSE Len(text))]

NarrativeChunk(chapter_num, index, text, tokens, start) ==
    [chapter_number |-> chapter_num, chunk_index |-> index, text |-> text,
     token_count |-> tokens, start_char |-> start, end_char |-> start + Len(text)]

\* The locals of _split_oversized_chapter.
SplitStart(start_offset) ==
    [chunks |-> <<>>, current_chunk |-> <<>>, current_tokens |-> 0,
     current_char_start |-> start_offset, chunk_index |-> 0]

\* One pass of the for loop over the paragraphs.
SplitParagraph(st, para, chapter_num, size) ==
    LET para_tokens == CountTokens(para)
        chunk_text == join(ParagraphBreak, st.current_chunk)
    IN  IF st.current_tokens + para_tokens > size /\ st.current_chunk # <<>>
        THEN LET overlap_text == st.current_chunk[Len(st.current_chunk)]
                 finished == Append(st.chunks,
                                    NarrativeChunk(chapter_num, st.chunk_index, chunk_text,
                                                   st.current_tokens, st.current_char_start))
             IN  IF Len(st.current_chunk) > 1
                 THEN [chunks |-> finished,
                       current_chunk |-> <<overlap_text, para>>,
                       current_tokens |-> CountTokens(overlap_text) + para_tokens,
                       current_char_start |-> st.current_char_start + Len(overlap_text) + 2,
                       chunk_index |-> st.chunk_index + 1]
                 ELSE [chunks |-> finished,
                       current_chunk |-> <<para>>,
                       current_tokens |-> para_tokens,
                       current_char_start |-> st.current_char_start + Len(chunk_text) + 2,
                       chunk_index |-> st.chunk_index + 1]
        ELSE [st EXCEPT !.current_chunk = Append(@, para),
                        !.current_tokens = @ + para_tokens]

RECURSIVE SplitParagraphs(_, _, _, _)
SplitParagraphs(st, paragraphs, chapter_num, size) ==
    IF paragraphs = <<>> THEN st
    ELSE SplitParagraphs(SplitParagraph(st, Head(paragraphs), chapter_num, size),
                         Tail(paragraphs), chapter_num, size)

\* _split_oversized_chapter(chapter_text, chapter_num, start_offset, title)
SplitOversizedChapter(chapter_text, chapter_num, start_offset, size) ==
    LET st == SplitParagraphs(SplitStart(start_offset), split(chapter_text, ParagraphBreak),
                              chapter_num, size)
    IN  IF st.current_chunk # <<>>
        THEN Append(st.chunks,
                    NarrativeChunk(chapter_num, st.chunk_index,
                                   join(ParagraphBreak, st.current_chunk),
                                   st.current_tokens, st.current_char_start))
        ELSE st.chunks

\* _chunk_chapter(chapter_text, chapter_num, start_offset, title)
ChunkChapter(chapter_text, chapter_num, start_offset, size) ==
    IF CountTokens(chapter_text) <= size
    THEN <<NarrativeChunk(chapter_num, 0, chapter_text, CountTokens(chapter_text),
                          start_offset)>>
    ELSE SplitOversizedChapter(chapter_text, chapter_num, start_offset, size)

\* The for loop of chunk over the chapters from chapter_num on.
RECURSIVE ChunkChapters(_, _, _, _)
ChunkChapters(chapters, chapter_num, global_char_offset, size) ==
    IF chapter_num > Len(chapters) THEN <<>>
    ELSE ChunkChapter(chapters[chapter_num], chapter_num, global_char_offset, size)
         \o ChunkChapters(chapters, chapter_num + 1,
                          global_char_offset + Len(chapters[chapter_num]), size)

\* NarrativeChunker.chunk(doc); the random chunk_id is left out.
Chunk(d, size) ==
    LET chapters == IF d.chapter_boundaries # <<>> /\ Len(d.chapter_boundaries) > 1
                    THEN SplitByChapter(d.raw_text, d.chapter_boundaries)
                    ELSE <<d.raw_text>>
    IN  ChunkChapters(chapters, 1, 0, size)

\* ------------------------------------------------------------------ inputs
RawTexts == UNION {[1..n -> {"w", "\n"}] : n \in 0..MaxDocLen}

ChapterBoundaries == {[k \in 1..n |-> k - 1] : n \in 0..MaxChapters}

\* ----------------------------------------------------------------- actions
ChunkDocument ==
    /\ kpc = "idle"
    /\ kpc' = "chunked"
    /\ \E text \in RawTexts, boundaries \in ChapterBoundaries, size \in 1..MaxChunkSize :
        /\ doc' = [raw_text |-> text, chapter_boundaries |-> boundaries]
        /\ chunk_size' = size
        /\ all_narrative' = Chunk([raw_text |-> text, chapter_boundaries |-> boundaries], size)
    /\ UNCHANGED <<pvars, callVars, parseVars, sceneVars, coerceVars, fountainVars,
                   sampleVars, limiterVars, queueVars>>

ChunkerEnds ==
    /\ kpc # "idle"
    /\ kpc' = "idle"
    /\ doc' = NoDoc
    /\ chunk_size' = 1
    /\ all_narrative' = <<>>
    /\ UNCHANGED <<pvars, callVars, parseVars, sceneVars, coerceVars, fountainVars,
                   sampleVars, limiterVars, queueVars>>

NextChunker ==
    \/ ChunkDocument
    \/ ChunkerEnds

InitChunker == Init /\ nChunks = 1

SpecChunker == InitChunker /\ [][NextChunker]_vars

\* Chapter numbers start at 1 and never decrease; chunk_index counts from 0
\* within each chapter.
CanonicalOrder(chunks) ==
    /\ chunks # <<>> => (chunks[1].chapter_number = 1 /\ chunks[1].chunk_index = 0)
    /\ \A k \in 1..(Len(chunks) - 1) :
          \/ /\ chunks[k + 1].chapter_number = chunks[k].chapter_number
             /\ chunks[k + 1].chunk_index = chunks[k].chunk_index + 1
          \/ /\ chunks[k + 1].chapter_number > chunks[k].chapter_number
             /\ chunks[k + 1].chunk_index = 0

\* Two or more paragraphs, none of them empty.
MultiParagraph(text) ==
    LET paragraphs == split(text, ParagraphBreak)
    IN  Len(paragraphs) > 1 /\ \A k \in 1..Len(paragraphs) : paragraphs[k] # <<>>

\* C36: chunk returns the chunks in canonical order; a document with at
\* most one chapter boundary and at most chunk_size tokens gives exactly one
\* chunk, chapter 1 index 0; a document of several paragraphs and more than
\* chunk_size tokens gives more than one chunk.
C36_ChunksInOrder ==
    kpc = "chunked" =>
        /\ CanonicalOrder(all_narrative)
        /\ (Len(doc.chapter_boundaries) <= 1 /\ CountTokens(doc.raw_text) <= chunk_size) =>
              (Len(all_narrative) = 1 /\ all_narrative[1].chapter_number = 1
                                     /\ all_narrative[1].chunk_index = 0)
        /\ (MultiParagraph(doc.raw_text) /\ CountTokens(doc.raw_text) > chunk_size) =>
              Len(all_narrative) > 1

\* ================================================================ job queue
\* Rows are inserted one at a time, so the position in the table orders
\* them by created_at; the id of a job is its position.
QueueUnchanged ==
    UNCHANGED <<pvars, callVars, parseVars, sceneVars, coerceVars, fountainVars,
                sampleVars, limiterVars, chunkerVars>>

\* add_job(prompt, api_provider)
AddJob(provider) ==
    /\ Len(generation_jobs) < MaxJobs
    /\ generation_jobs' = Append(generation_jobs,
                                 [status |-> "queued", api_provider |-> provider])
    /\ UNCHANGED <<wpc, job, handouts>>
    /\ QueueUnchanged

\* WHERE status = 'queued' [AND api_provider = ?]; "any" stands for no provider
Selected(provider) ==
    {id \in 1..Len(generation_jobs) :
        /\ generation_jobs[id].status = "queued"
        /\ provider # "any" => generation_jobs[id].api_provider = provider}

\* ORDER BY created_at ASC LIMIT 1, 0 for no row
FirstRow(ids) == IF ids = {} THEN 0 ELSE CHOOSE id \in ids : \A other \in ids : id <= other

\* get_next_job(api_provider): a SELECT, the table is left as it is.
GetNextJob(w, provider) ==
    /\ wpc[w] \in {"idle", "got"}
    /\ LET row == FirstRow(Selected(provider))
       IN  /\ row # 0 => handouts[row] < MaxHandouts
           /\ job' = [job EXCEPT ![w] = row]
           /\ wpc' = [wpc EXCEPT ![w] = IF row # 0 THEN "got" ELSE "idle"]
           /\ handouts' = IF row # 0 THEN [handouts EXCEPT ![row] = @ + 1] ELSE handouts
    /\ UNCHANGED generation_jobs
    /\ QueueUnchanged

SetStatus(id, status) == [generation_jobs EXCEPT ![id].status = status]

\* mark_running(job_id)
MarkRunning(w) ==
    /\ wpc[w] = "got"
    /\ generation_jobs' = SetStatus(job[w], "running")
    /\ wpc' = [wpc EXCEPT ![w] = "running"]
    /\ UNCHANGED <<job, handouts>>
    /\ QueueUnchanged

\* mark_complete(job_id, ...) or mark_failed(job_id, error)
MarkDone(w, status) ==
    /\ wpc[w] = "running"
    /\ generation_jobs' = SetStatus(job[w], status)
    /\ wpc' = [wpc EXCEPT ![w] = "idle"]
    /\ job' = [job EXCEPT ![w] = 0]
    /\ UNCHANGED handouts
    /\ QueueUnchanged

NextQueue ==
    \/ \E provider \in Providers : AddJob(provider)
    \/ \E w \in Workers, provider \in Providers \cup {"any"} : GetNextJob(w, provider)
    \/ \E w \in Workers : MarkRunning(w)
    \/ \E w \in Workers, status \in {"complete", "failed"} : MarkDone(w, status)

InitQueue == Init /\ nChunks = 1

SpecQueue == InitQueue /\ [][NextQueue]_vars

\* C40: get_next_job returns a job once only, to one worker and in one
\* call, and the job a worker got and has not yet marked running is the
\* oldest that was queued for the provider asked for.
C40_HandedOutOnce ==
    /\ \A id \in 1..MaxJobs : handouts[id] <= 1
    /\ \A w \in Workers, v \in Workers : (w # v /\ job[w] # 0) => job[w] # job[v]
    /\ \A w \in Workers :
          wpc[w] = "got" =>
              \A id \in 1..(job[w] - 1) :
                  \/ generation_jobs[id].status # "queued"
                  \/ generation_jobs[id].api_provider # generation_jobs[job[w]].api_provider

====
